---------------------------- MODULE Spec2Model ----------------------------
(***************************************************************************)
(* Verification model of the codec toolkit: GF(256) arithmetic, polynomial *)
(* operations, the Reed-Solomon codec and the Huffman archiver.            *)
(*                                                                         *)
(* Conventions.                                                            *)
(*  - A byte is a number in 0..255.  A Rust Vec<u8>/slice is a sequence;   *)
(*    Rust index i is TLA+ index i+1.                                      *)
(*  - A Rust Result / panic is a record [tag, val] with tag "Ok", "Err"    *)
(*    or "Panic".                                                          *)
(***************************************************************************)
EXTENDS Integers, Sequences, FiniteSets, TLC

VARIABLES
    gf_a, gf_b,        \* field inputs: the two operands of the last call
    gf_op,             \* which GF256 trait method was called ("none" before)
    gf_fast,           \* its outcome with FastGF256
    gf_simple,         \* its outcome with SimpleGF256
    rs_control_count,  \* ReedSolomon.control_count
    rs_gen_poly,       \* ReedSolomon.gen_poly
    rs_message,        \* the message given to encode
    rs_encoded,        \* what encode returned
    rs_data,           \* the word on its way to decode
    rs_errors,         \* the (Rust) indices of rs_data changed since encode
    rs_pc,             \* "new", "encoded", "received" or "decoded"
    rs_decoded,        \* what decode returned
    hf_words,          \* the words given to the code builder
    hf_probabilities,  \* their probabilities, in the same order
    hf_pc,             \* "input", "codes" (build_optimal_codes) or "tree" (build)
    hf_codes,          \* the Codes built: words, probabilities, codes
    ar_input,          \* the bytes of the file to archive
    ar_pc,             \* "input", "archived", "archived_twice" or "decoded"
    ar_archive,        \* the archive written [tag, val]
    ar_archive2,       \* the archive a second encoding of ar_input wrote
    ar_decoded,        \* what decoding ar_archive wrote
    gp_control_count,  \* the control_count given to ReedSolomon::new
    gp_gf,             \* the field implementation given to it
    gp_pc,             \* "input" or "new"
    gp_gen_poly,       \* the gen_poly of the codec built [tag, val]
    dp_gf,             \* the field implementation _div_poly is called on
    dp_dividend,       \* its dividend
    dp_divisor,        \* its divisor
    dp_pc,             \* "input" or "divided"
    dp_result,         \* what it returned: Ok([quotient, remainder]) or the panic
    st_self,           \* the archiver whose state is saved
    st_order,          \* the iteration order of its word_code
    st_pc,             \* input, saved or loaded
    st_state,          \* the bytes save_state returned
    st_loaded,         \* what load_state returned
    fq_map,            \* the FrequencyMap of the file, its byte counts and total
    fq_order,          \* the iteration order of the maps
    fq_pc,             \* input, built or saved
    fq_archiver,       \* what HuffmanArchiver::new returned
    fq_state,          \* the bytes save_state returned
    rd_codes,          \* the code table the tree is restored from
    rd_order,          \* the iteration order of the table
    rd_pc,             \* input, restored or decoded
    rd_tree,           \* what restore_from_word_code returned
    rd_bits,           \* the bit string decoded
    rd_decoded,        \* what decode_string returned
    ls_state,          \* the state bytes read from an archive
    ls_pc,             \* input or loaded
    ls_loaded,         \* what load_state returned
    dw_self,           \* the archiver load_state returned
    dw_bytes,          \* the payload read from the archive
    dw_original_size,  \* the original size read from the archive
    dw_order,          \* the iteration order of word_code
    dw_pc,             \* input or written
    dw_written,        \* the bytes written to the destination, or the error
    bc_control_count,  \* the parity count of the codec
    bc_gf,             \* the field implementation of the codec
    bc_data,           \* the bytes given to the block coder
    bc_block_size,     \* the block size given with them
    bc_pc,             \* input, encoded, decoded or decoded_blocks
    bc_encoded,        \* what encode_blocks_to_vec returned
    bc_decoded,        \* what decode_blocks_to_vec returned
    bc_blocks,         \* what decode_blocks returned
    bb_bits,           \* the bit sequence given to bits_to_bytes
    bb_bytes,          \* the byte sequence given to bytes_to_bits
    bb_pc,             \* input, then the conversion made last
    bb_to_bytes,       \* what bits_to_bytes returned
    bb_to_bits,        \* what bytes_to_bits returned
    lc_control_count,  \* the parity count of the codec
    lc_data,           \* the word as received, a codeword with some positions changed
    lc_errors,         \* the positions changed
    lc_pc,             \* received or located
    lc_syndromes,      \* what calculate_syndromes returned
    lc_locator,        \* what find_error_locator returned
    fr_file,           \* the bytes of the file scanned
    fr_pos,            \* how many of them the reader has returned
    fr_map,            \* the FrequencyMap, its hashmap and total
    fr_pc,             \* scanning or done
    fr_failed,         \* a read of the file returned an error
    fr_result,         \* what create_probabilities_map returned
    hc_self,           \* the HuffmanArchiver, its word_code, mean_code_length and decoder cell
    hc_order,          \* the iteration order of its word_code
    hc_calls,          \* how many decode_string calls it has served
    hc_decoded,        \* what the last decode_string call returned
    hc_clone,          \* the archiver clone() returned, if it was called
    qb_data,           \* the data bytes handed to split_into_blocks
    qb_info,           \* size and count of the blocks of both groups, as fetched for the version and level
    qb_blocks,         \* the blocks handed to combine_blocks
    qb_pc,             \* split or combine, then done
    qb_result          \* what the call returned

gf_vars == <<gf_a, gf_b, gf_op, gf_fast, gf_simple>>

rs_vars == <<rs_control_count, rs_gen_poly, rs_message, rs_encoded, rs_data,
             rs_errors, rs_pc, rs_decoded>>

hf_vars == <<hf_words, hf_probabilities, hf_pc, hf_codes>>

ar_vars == <<ar_input, ar_pc, ar_archive, ar_archive2, ar_decoded>>

gp_vars == <<gp_control_count, gp_gf, gp_pc, gp_gen_poly>>

dp_vars == <<dp_gf, dp_dividend, dp_divisor, dp_pc, dp_result>>

st_vars == <<st_self, st_order, st_pc, st_state, st_loaded>>

fq_vars == <<fq_map, fq_order, fq_pc, fq_archiver, fq_state>>

rd_vars == <<rd_codes, rd_order, rd_pc, rd_tree, rd_bits, rd_decoded>>

ls_vars == <<ls_state, ls_pc, ls_loaded>>

dw_vars == <<dw_self, dw_bytes, dw_original_size, dw_order, dw_pc, dw_written>>

bc_vars == <<bc_control_count, bc_gf, bc_data, bc_block_size, bc_pc, bc_encoded, bc_decoded, bc_blocks>>

bb_vars == <<bb_bits, bb_bytes, bb_pc, bb_to_bytes, bb_to_bits>>

lc_vars == <<lc_control_count, lc_data, lc_errors, lc_pc, lc_syndromes, lc_locator>>

fr_vars == <<fr_file, fr_pos, fr_map, fr_pc, fr_failed, fr_result>>

hc_vars == <<hc_self, hc_order, hc_calls, hc_decoded, hc_clone>>

qb_vars == <<qb_data, qb_info, qb_blocks, qb_pc, qb_result>>

vars == <<gf_vars, rs_vars, hf_vars, ar_vars, gp_vars, dp_vars, st_vars, fq_vars, rd_vars, ls_vars, dw_vars, bc_vars, bb_vars, lc_vars, fr_vars, hc_vars, qb_vars>>

\* what the calls of one subsystem leave alone: the state of the others
not_gf == <<rs_vars, hf_vars, ar_vars, gp_vars, dp_vars, st_vars, fq_vars, rd_vars, ls_vars, dw_vars, bc_vars, bb_vars, lc_vars, fr_vars, hc_vars, qb_vars>>

not_rs == <<gf_vars, hf_vars, ar_vars, gp_vars, dp_vars, st_vars, fq_vars, rd_vars, ls_vars, dw_vars, bc_vars, bb_vars, lc_vars, fr_vars, hc_vars, qb_vars>>

not_hf == <<gf_vars, rs_vars, ar_vars, gp_vars, dp_vars, st_vars, fq_vars, rd_vars, ls_vars, dw_vars, bc_vars, bb_vars, lc_vars, fr_vars, hc_vars, qb_vars>>

not_ar == <<gf_vars, rs_vars, hf_vars, gp_vars, dp_vars, st_vars, fq_vars, rd_vars, ls_vars, dw_vars, bc_vars, bb_vars, lc_vars, fr_vars, hc_vars, qb_vars>>

not_gp == <<gf_vars, rs_vars, hf_vars, ar_vars, dp_vars, st_vars, fq_vars, rd_vars, ls_vars, dw_vars, bc_vars, bb_vars, lc_vars, fr_vars, hc_vars, qb_vars>>

not_dp == <<gf_vars, rs_vars, hf_vars, ar_vars, gp_vars, st_vars, fq_vars, rd_vars, ls_vars, dw_vars, bc_vars, bb_vars, lc_vars, fr_vars, hc_vars, qb_vars>>

not_st == <<gf_vars, rs_vars, hf_vars, ar_vars, gp_vars, dp_vars, fq_vars, rd_vars, ls_vars, dw_vars, bc_vars, bb_vars, lc_vars, fr_vars, hc_vars, qb_vars>>

not_fq == <<gf_vars, rs_vars, hf_vars, ar_vars, gp_vars, dp_vars, st_vars, rd_vars, ls_vars, dw_vars, bc_vars, bb_vars, lc_vars, fr_vars, hc_vars, qb_vars>>

not_rd == <<gf_vars, rs_vars, hf_vars, ar_vars, gp_vars, dp_vars, st_vars, fq_vars, ls_vars, dw_vars, bc_vars, bb_vars, lc_vars, fr_vars, hc_vars, qb_vars>>

not_ls == <<gf_vars, rs_vars, hf_vars, ar_vars, gp_vars, dp_vars, st_vars, fq_vars, rd_vars, dw_vars, bc_vars, bb_vars, lc_vars, fr_vars, hc_vars, qb_vars>>

not_dw == <<gf_vars, rs_vars, hf_vars, ar_vars, gp_vars, dp_vars, st_vars, fq_vars, rd_vars, ls_vars, bc_vars, bb_vars, lc_vars, fr_vars, hc_vars, qb_vars>>

not_bc == <<gf_vars, rs_vars, hf_vars, ar_vars, gp_vars, dp_vars, st_vars, fq_vars, rd_vars, ls_vars, dw_vars, bb_vars, lc_vars, fr_vars, hc_vars, qb_vars>>

not_bb == <<gf_vars, rs_vars, hf_vars, ar_vars, gp_vars, dp_vars, st_vars, fq_vars, rd_vars, ls_vars, dw_vars, bc_vars, lc_vars, fr_vars, hc_vars, qb_vars>>

not_lc == <<gf_vars, rs_vars, hf_vars, ar_vars, gp_vars, dp_vars, st_vars, fq_vars, rd_vars, ls_vars, dw_vars, bc_vars, bb_vars, fr_vars, hc_vars, qb_vars>>

not_fr == <<gf_vars, rs_vars, hf_vars, ar_vars, gp_vars, dp_vars, st_vars, fq_vars, rd_vars, ls_vars, dw_vars, bc_vars, bb_vars, lc_vars, hc_vars, qb_vars>>

not_hc == <<gf_vars, rs_vars, hf_vars, ar_vars, gp_vars, dp_vars, st_vars, fq_vars, rd_vars, ls_vars, dw_vars, bc_vars, bb_vars, lc_vars, fr_vars, qb_vars>>

not_qb == <<gf_vars, rs_vars, hf_vars, ar_vars, gp_vars, dp_vars, st_vars, fq_vars, rd_vars, ls_vars, dw_vars, bc_vars, bb_vars, lc_vars, fr_vars, hc_vars>>

Byte == 0..255

Ok(v) == [tag |-> "Ok", val |-> v]
Err(why) == [tag |-> "Err", why |-> why]
Panic(why) == [tag |-> "Panic", why |-> why]

(***************************************************************************)
(* u8 / u16 bit operations                                                 *)
(***************************************************************************)
RECURSIVE XorN(_, _)
\* a ^ b on unsigned integers, bit by bit
XorN(a, b) ==
    IF a = 0 THEN b
    ELSE IF b = 0 THEN a
    ELSE (((a % 2) + (b % 2)) % 2) + 2 * XorN(a \div 2, b \div 2)

\* a ^ b for bytes, tabulated once
XorTab == [a \in Byte |-> [b \in Byte |-> XorN(a, b)]]

\* GF256::add: a ^ b
add(a, b) == XorTab[a][b]

\* GF256::sub: a ^ b
sub(a, b) == XorTab[a][b]

PRIMITIVE_POLY_FULL == 285

PRIMITIVE_POLY == 29

(***************************************************************************)
(* FastGF256: exp/log tables                                               *)
(***************************************************************************)
\* one iteration of the `for i in 0..256` loop of FastGF256::new; x is a u16
FastGF256_new_step(i, st) ==
    LET x2 == (st.x * 2) % 65536
    IN  [x |-> IF x2 >= 256 THEN XorN(x2, PRIMITIVE_POLY_FULL) ELSE x2,
         exp_table |-> [st.exp_table EXCEPT ![i] = st.x % 256],
         log_table |-> [st.log_table EXCEPT ![st.x] = i % 256]]

RECURSIVE FastGF256_new_loop(_, _, _)
\* iterations i .. stop-1 of that loop
FastGF256_new_loop(i, stop, st) ==
    IF i = stop \/ st.x \notin 0..65535 THEN st
    ELSE FastGF256_new_loop(i + 1, stop, FastGF256_new_step(i, st))

RECURSIVE FastGF256_new_rows(_, _)
\* the same loop, evaluated sixteen iterations at a time
FastGF256_new_rows(r, st) ==
    IF r = 16 THEN st
    ELSE FastGF256_new_rows(r + 1, FastGF256_new_loop(16 * r, 16 * r + 16, st))

\* FastGF256::new
FastGF256_new ==
    FastGF256_new_rows(0, [x |-> 1,
                           exp_table |-> [k \in 0..255 |-> 0],
                           log_table |-> [k \in 0..255 |-> 0]])

exp_table == FastGF256_new.exp_table

log_table == FastGF256_new.log_table

\* FastGF256::_div
FastGF256_div(a, b) == exp_table[(log_table[a] - log_table[b] + 255) % 255]

FastGF256_mul_mod_256(a, b) == exp_table[(log_table[a] + log_table[b]) % 256]

\* FastGF256::_mul
FastGF256_mul(a, b) == exp_table[(log_table[a] + log_table[b]) % 255]

FastGF256_pow_u8_product(a, n) == exp_table[((log_table[a] * n) % 256) % 255]

\* FastGF256::_pow
FastGF256_pow(a, n) == exp_table[(log_table[a] * n) % 255]

\* FastGF256::_inverse
FastGF256_inverse(a) == exp_table[255 - log_table[a]]

(***************************************************************************)
(* SimpleGF256: shift-and-XOR reference                                    *)
(***************************************************************************)
RECURSIVE SimpleGF256_mul_loop(_, _, _)
SimpleGF256_mul_loop(a, b, result) ==
    IF a = 0 THEN result
    ELSE SimpleGF256_mul_loop(
            a \div 2,
            XorTab[(b * 2) % 256][PRIMITIVE_POLY * (b \div 128)],
            XorTab[result][b * (a % 2)])

RECURSIVE SimpleGF256_mul_loop_0x11B(_, _, _)
SimpleGF256_mul_loop_0x11B(a, b, result) ==
    IF a = 0 THEN result
    ELSE SimpleGF256_mul_loop_0x11B(
            a \div 2,
            XorTab[(b * 2) % 256][27 * (b \div 128)],
            XorTab[result][b * (a % 2)])

\* SimpleGF256::mul reducing by x^8 + x^4 + x^3 + x + 1
SimpleGF256_mul_0x11B(a, b) == SimpleGF256_mul_loop_0x11B(a, b, 0)

\* SimpleGF256::mul
SimpleGF256_mul(a, b) == SimpleGF256_mul_loop(a, b, 0)

RECURSIVE SimpleGF256_pow_loop(_, _, _)
SimpleGF256_pow_loop(a, n, result) ==
    IF n = 0 THEN result
    ELSE SimpleGF256_pow_loop(
            SimpleGF256_mul(a, a),
            n \div 2,
            IF n % 2 > 0 THEN SimpleGF256_mul(result, a) ELSE result)

\* SimpleGF256::pow
SimpleGF256_pow(a, n) == SimpleGF256_pow_loop(a, n, 1)

(***************************************************************************)
(* trait GF256: the provided methods, over implementation gf               *)
(***************************************************************************)
Fast == "FastGF256"
Simple == "SimpleGF256"
Impls == {Fast, Simple}

\* GF256::mul -> Self::_mul
mul(gf, a, b) ==
    IF a = 0 \/ b = 0 THEN 0
    ELSE IF gf = Fast THEN FastGF256_mul(a, b) ELSE SimpleGF256_mul(a, b)

\* GF256::pow -> Self::_pow
pow(gf, a, n) ==
    IF n = 0 THEN 1
    ELSE IF a = 0 THEN 0
    ELSE IF gf = Fast THEN FastGF256_pow(a, n) ELSE SimpleGF256_pow(a, n)

\* GF256::inverse -> Self::_inverse; SimpleGF256::_inverse is self.pow(a, 254)
inverse(gf, a) ==
    IF a = 0 THEN Panic("Zero has no inverse")
    ELSE IF gf = Fast THEN Ok(FastGF256_inverse(a)) ELSE Ok(pow(gf, a, 254))

\* div with the two tests in the other order: 0 / 0 is 0
div_zero_dividend_first(gf, a, b) ==
    IF a = 0 THEN Ok(0)
    ELSE IF b = 0 THEN Panic("Division by zero")
    ELSE IF gf = Fast THEN Ok(FastGF256_div(a, b))
    ELSE Ok(mul(gf, a, inverse(gf, b).val))

\* GF256::div -> Self::_div; SimpleGF256::_div is mul(a, inverse(b))
div(gf, a, b) ==
    IF b = 0 THEN Panic("Division by zero")
    ELSE IF a = 0 THEN Ok(0)
    ELSE IF gf = Fast THEN Ok(FastGF256_div(a, b))
    ELSE Ok(mul(gf, a, inverse(gf, b).val))

\* GF256::alpha
alpha == 2

\* GF256::alpha_pow
alpha_pow(gf, n) == pow(gf, alpha, n)

(***************************************************************************)
(* trait GF256Poly: polynomials are little-endian coefficient sequences    *)
(***************************************************************************)
Max(a, b) == IF a >= b THEN a ELSE b
Min(a, b) == IF a <= b THEN a ELSE b

RECURSIVE XorAll(_)
\* the running `result = self.add(result, term)` of a loop, over its terms
XorAll(terms) ==
    IF terms = <<>> THEN 0 ELSE add(Head(terms), XorAll(Tail(terms)))

\* a.get(i).copied().unwrap_or_default(), i a Rust index
GetOrDefault(a, i) == IF i < Len(a) THEN a[i + 1] ELSE 0

\* GF256Poly::add_poly
add_poly(a, b) ==
    [i \in 1..Max(Len(a), Len(b)) |->
        add(GetOrDefault(a, i - 1), GetOrDefault(b, i - 1))]

\* GF256Poly::mul_poly (a and b not both empty)
mul_poly(gf, a, b) ==
    [k \in 1..(Len(a) + Len(b) - 1) |->
        XorAll([i \in 1..Len(a) |->
                   IF k - i + 1 \in 1..Len(b)
                   THEN mul(gf, a[i], b[k - i + 1]) ELSE 0])]

\* GF256Poly::eval_poly; the exponent is `i as u8`
eval_poly(gf, poly, x) ==
    XorAll([i \in 1..Len(poly) |-> mul(gf, poly[i], pow(gf, x, (i - 1) % 256))])

\* GF256Poly::scale_poly
scale_poly(gf, poly, scalar) == [i \in 1..Len(poly) |-> mul(gf, poly[i], scalar)]

\* GF256Poly::shift_poly
shift_poly(poly, shift) == [i \in 1..shift |-> 0] \o poly

\* vec.iter().all(|&x| x == 0)
AllZero(v) == \A i \in 1..Len(v) : v[i] = 0

\* _div_poly, inside `if remainder[len - i - 1] != 0`: the quotient
\* coefficient is stored and coef * divisor is subtracted from the remainder
div_poly_subtract(gf, i, st, divisor, coef) ==
    [quotient  |-> [st.quotient EXCEPT ![Len(st.quotient) - i] = coef],
     remainder |->
        [idx \in 1..Len(st.remainder) |->
           \* curr_idx = len - i - j - 1 for j in 0..divisor.len()
           LET j == Len(st.remainder) - i - idx
           IN  IF j \in 0..(Len(divisor) - 1) /\ divisor[Len(divisor) - j] # 0
               THEN sub(st.remainder[idx], mul(gf, coef, divisor[Len(divisor) - j]))
               ELSE st.remainder[idx]]]

\* one pass of the `for i in 0..quotient.len()` loop of _div_poly
div_poly_step(gf, i, st, divisor, leader) ==
    IF st.remainder[Len(st.remainder) - i] # 0
    THEN div_poly_subtract(gf, i, st, divisor,
                           div(gf, st.remainder[Len(st.remainder) - i], leader).val)
    ELSE st

RECURSIVE div_poly_loop(_, _, _, _, _)
div_poly_loop(gf, i, st, divisor, leader) ==
    IF i = Len(st.quotient) THEN st
    ELSE div_poly_loop(gf, i + 1, div_poly_step(gf, i, st, divisor, leader),
                       divisor, leader)

\* _div_poly after its loop: the remainder is cut to divisor.len() - 1
\* coefficients, and is [0] when that is empty or all zero
div_poly_result(st, divisor) ==
    LET actual_remainder == SubSeq(st.remainder, 1, Len(divisor) - 1)
    IN  Ok([quotient  |-> st.quotient,
            remainder |-> IF actual_remainder = <<>> \/ AllZero(actual_remainder)
                          THEN <<0>> ELSE actual_remainder])

\* GF256Poly::_div_poly: Ok([quotient, remainder]) or a panic
_div_poly(gf, dividend, divisor) ==
    IF divisor = <<>> THEN Panic("Division by zero")
    ELSE IF divisor[Len(divisor)] = 0 THEN Panic("Divisor has zero leading coefficient")
    ELSE IF Len(dividend) < Len(divisor)
            \/ (Len(dividend) = Len(divisor)
                /\ dividend[Len(dividend)] < divisor[Len(divisor)])
    THEN Ok([quotient |-> <<0>>, remainder |-> dividend])
    ELSE div_poly_result(
             div_poly_loop(gf, 0,
                 [quotient  |-> [k \in 1..(Len(dividend) - Len(divisor) + 1) |-> 0],
                  remainder |-> dividend],
                 divisor, divisor[Len(divisor)]),
             divisor)

\* the first / the second component of _div_poly's pair
quotient_of(qr) == IF qr.tag = "Ok" THEN Ok(qr.val.quotient) ELSE qr

remainder_of(qr) == IF qr.tag = "Ok" THEN Ok(qr.val.remainder) ELSE qr

mod_poly_quotient(gf, dividend, divisor) == quotient_of(_div_poly(gf, dividend, divisor))

\* GF256Poly::mod_poly
mod_poly(gf, dividend, divisor) == remainder_of(_div_poly(gf, dividend, divisor))

(***************************************************************************)
(* ReedSolomon<FastGF256> (reed_solomon crate, new_reed_solomon)           *)
(***************************************************************************)
RECURSIVE build_gen_poly_loop(_, _, _, _)
\* the `for i in 0..control_count` loop of build_gen_poly; gen_poly is never
\* empty (it starts as [1] and grows), and looking at it has its value
\* computed in this iteration, as the assignment in the loop does
build_gen_poly_loop(gf, i, control_count, gen_poly) ==
    IF i = control_count \/ gen_poly = <<>> THEN gen_poly
    ELSE LET shifted_poly == shift_poly(gen_poly, 1)
             alpha_i      == alpha_pow(gf, i % 256)
         IN  build_gen_poly_loop(gf, i + 1, control_count,
                 add_poly(mul_poly(gf, gen_poly, <<alpha_i>>), shifted_poly))

\* the generator whose roots are alpha^1 .. alpha^control_count
build_gen_poly_roots_from_alpha(gf, control_count) ==
    build_gen_poly_loop(gf, 1, control_count + 1, <<1>>)

\* ReedSolomon::build_gen_poly
build_gen_poly(gf, control_count) == build_gen_poly_loop(gf, 0, control_count, <<1>>)

\* ReedSolomon::calculate_syndromes
calculate_syndromes(gf, control_count, data) ==
    [i \in 1..control_count |-> eval_poly(gf, data, alpha_pow(gf, (i - 1) % 256))]

RECURSIVE TrimZeros(_)
\* while v.len() > 1 && *v.last() == 0 { v.pop() }
TrimZeros(v) ==
    IF Len(v) > 1 /\ v[Len(v)] = 0 THEN TrimZeros(SubSeq(v, 1, Len(v) - 1)) ELSE v

\* find_error_locator, the pass for a nonzero discrepancy d: C(x) += (d/b) * B(x) * x^m,
\* trailing zeros trimmed; L, B(x), b and m are updated when 2L <= n
find_error_locator_update(gf, n, st, discrepancy, scale) ==
    IF scale.tag = "Panic" THEN [st EXCEPT !.panic = TRUE]
    ELSE IF 2 * st.locator_degree <= n
    THEN [locator         |-> TrimZeros(add_poly(st.locator,
                                  shift_poly(scale_poly(gf, st.old_locator, scale.val), st.m))),
          old_locator     |-> st.locator,
          locator_degree  |-> n + 1 - st.locator_degree,
          m               |-> 1,
          old_discrepancy |-> discrepancy,
          panic           |-> FALSE]
    ELSE [st EXCEPT !.locator = TrimZeros(add_poly(st.locator,
                                  shift_poly(scale_poly(gf, st.old_locator, scale.val), st.m))),
                    !.m = st.m + 1]

\* find_error_locator, the pass once the discrepancy is known
find_error_locator_pass(gf, n, st, discrepancy) ==
    IF discrepancy = 0 THEN [st EXCEPT !.m = st.m + 1]
    ELSE find_error_locator_update(gf, n, st, discrepancy,
                                   div(gf, discrepancy, st.old_discrepancy))

\* one pass of the `for n in 0..control_count` loop of find_error_locator:
\* d = S_n + C_1 * S_{n-1} + ... + C_L * S_{n-L}
find_error_locator_step(gf, n, st, syndromes) ==
    find_error_locator_pass(gf, n, st,
        add(syndromes[n + 1],
            XorAll([i \in 1..st.locator_degree |->
                       IF i < Len(st.locator) /\ i <= n
                       THEN mul(gf, st.locator[i + 1], syndromes[n - i + 1])
                       ELSE 0])))

RECURSIVE find_error_locator_loop(_, _, _, _, _)
find_error_locator_loop(gf, n, control_count, st, syndromes) ==
    IF n = control_count \/ st.panic THEN st
    ELSE find_error_locator_loop(gf, n + 1, control_count,
             find_error_locator_step(gf, n, st, syndromes), syndromes)

\* find_error_locator returning B(x), the locator saved at the last update
find_error_locator_result_old(control_count, st) ==
    IF st.panic THEN Panic("Division by zero")
    ELSE IF st.locator_degree > control_count \div 2
    THEN Err("Failed to find error locator: too many errors to correct")
    ELSE Ok(st.old_locator)

\* find_error_locator after its loop: the degree check
find_error_locator_result(control_count, st) ==
    IF st.panic THEN Panic("Division by zero")
    ELSE IF st.locator_degree > control_count \div 2
    THEN Err("Failed to find error locator: too many errors to correct")
    ELSE Ok(st.locator)

\* ReedSolomon::find_error_locator (Berlekamp-Massey)
find_error_locator(gf, control_count, syndromes) ==
    find_error_locator_result(control_count,
        find_error_locator_loop(gf, 0, control_count,
            [locator |-> <<1>>, old_locator |-> <<1>>, locator_degree |-> 0,
             m |-> 1, old_discrepancy |-> 1, panic |-> FALSE],
            syndromes))

\* find_error_positions after its loop: more roots than the locator's degree
find_error_positions_result(positions, expected_errors) ==
    IF Len(positions) > expected_errors
    THEN Err("Found more roots than expected errors")
    ELSE Ok(positions)

\* ReedSolomon::find_error_positions (Chien search); positions are Rust indices
find_error_positions(gf, error_locator, data_len) ==
    LET IsRoot(i) ==
            eval_poly(gf, error_locator,
                      inverse(gf, alpha_pow(gf, i % 256)).val) = 0
    IN  find_error_positions_result(SelectSeq([i \in 1..data_len |-> i - 1], IsRoot),
                                    Len(error_locator) - 1)

find_locator_derivative_all_terms(locator) ==
    TrimZeros([k \in 1..Len(locator) |-> IF k < Len(locator) THEN locator[k + 1] ELSE 0])

\* ReedSolomon::find_locator_derivative: the odd-degree coefficients, moved
\* one place down, trailing zeros trimmed
find_locator_derivative(locator) ==
    TrimZeros([k \in 1..Len(locator) |->
                  \* locator_derivative[i - 1] = locator[i] for odd i in 1..len
                  IF k % 2 = 1 /\ k < Len(locator) THEN locator[k + 1] ELSE 0])

\* find_error_magnitudes, one position: `magnitude = mul(division, alpha_i)`,
\* or the panic of gf.div
find_error_magnitude_scale(gf, division, alpha_i) ==
    IF division.tag = "Panic" THEN division
    ELSE Ok(mul(gf, division.val, alpha_i))

\* find_error_magnitudes, one position: Y_i = X_i * W(X_i^-1) / L'(X_i^-1)
find_error_magnitude(gf, omega, locator_derivative, alpha_i, alpha_inv) ==
    find_error_magnitude_scale(gf,
        div(gf, eval_poly(gf, omega, alpha_inv),
                eval_poly(gf, locator_derivative, alpha_inv)),
        alpha_i)

\* find_error_magnitudes, one position: alpha_inv = inverse(alpha_i)
find_error_magnitude_at(gf, omega, locator_derivative, alpha_i) ==
    find_error_magnitude(gf, omega, locator_derivative, alpha_i, inverse(gf, alpha_i).val)

\* the magnitudes pushed by the loop, unless one of its passes panicked
find_error_magnitudes_collect(magnitudes) ==
    IF \E k \in 1..Len(magnitudes) : magnitudes[k].tag = "Panic"
    THEN Panic("Division by zero")
    ELSE Ok([k \in 1..Len(magnitudes) |-> magnitudes[k].val])

\* find_error_magnitudes, its loop over the positions; alpha_i = alpha_pow(err_pos as u8)
find_error_magnitudes_loop(gf, omega, locator_derivative, error_positions) ==
    find_error_magnitudes_collect(
        [k \in 1..Len(error_positions) |->
            find_error_magnitude_at(gf, omega, locator_derivative,
                                    alpha_pow(gf, error_positions[k] % 256))])

\* omega = product[..control_count.min(product.len())]
find_error_magnitudes_omega(control_count, product) ==
    SubSeq(product, 1, Min(control_count, Len(product)))

\* ReedSolomon::find_error_magnitudes (Forney): Ok(magnitudes), or the panic of gf.div
find_error_magnitudes(gf, control_count, syndromes, locator, error_positions) ==
    find_error_magnitudes_loop(gf,
        find_error_magnitudes_omega(control_count, mul_poly(gf, locator, syndromes)),
        find_locator_derivative(locator),
        error_positions)

\* ReedSolomon::correct_errors: Ok(corrected), or its out-of-bounds panic
correct_errors(data, error_positions, error_magnitudes) ==
    LET count == Min(Len(error_positions), Len(error_magnitudes))
    IN  IF \E k \in 1..count : error_positions[k] >= Len(data)
        THEN Panic("Error position out of bounds")
        ELSE Ok([idx \in 1..Len(data) |->
                    \* positions are distinct: at most one k applies
                    IF \E k \in 1..count : error_positions[k] = idx - 1
                    THEN LET k == CHOOSE k \in 1..count : error_positions[k] = idx - 1
                         IN  sub(data[idx], error_magnitudes[k])
                    ELSE data[idx]])

\* the longest word ReedSolomon::encode / decode accept: the code length of GF(256)
MAX_CODE_LEN == 255

\* encode, the systematic word: the message shifted up by control_count,
\* its low coefficients replaced by the remainder
encode_systematic(control_count, encoded, remainder) ==
    IF remainder.tag = "Panic" THEN remainder
    ELSE Ok([i \in 1..Len(encoded) |->
                IF i <= Min(control_count, Len(remainder.val))
                THEN remainder.val[i] ELSE encoded[i]])

\* <ReedSolomon as Coder>::encode
encode(gf, control_count, gen_poly, data) ==
    IF Len(data) + control_count > MAX_CODE_LEN
    THEN Err("Message too long and cannot be encoded with GF256")
    ELSE encode_systematic(control_count,
                           shift_poly(data, control_count),
                           mod_poly(gf, shift_poly(data, control_count), gen_poly))

\* decode, its end: the syndromes of the corrected word are checked
decode_corrected(gf, control_count, corrected) ==
    IF corrected.tag # "Ok" THEN corrected
    ELSE IF ~AllZero(calculate_syndromes(gf, control_count, corrected.val))
    THEN Err("Could not correct all errors")
    ELSE Ok(SubSeq(corrected.val, control_count + 1, Len(corrected.val)))

\* decode, from the error magnitudes on
decode_magnitudes(gf, control_count, data, error_positions, error_magnitudes) ==
    IF error_magnitudes.tag # "Ok" THEN error_magnitudes
    ELSE decode_corrected(gf, control_count,
             correct_errors(data, error_positions, error_magnitudes.val))

\* decode, from the error positions on
decode_positions(gf, control_count, data, syndromes, error_locator, error_positions) ==
    IF error_positions.tag # "Ok" THEN error_positions
    ELSE decode_magnitudes(gf, control_count, data, error_positions.val,
             find_error_magnitudes(gf, control_count, syndromes, error_locator,
                                   error_positions.val))

\* decode, from the error locator on
decode_locator(gf, control_count, data, syndromes, error_locator) ==
    IF error_locator.tag # "Ok" THEN error_locator
    ELSE decode_positions(gf, control_count, data, syndromes, error_locator.val,
             find_error_positions(gf, error_locator.val, Len(data)))

\* decode, from the syndromes on: all zero means the word is returned as it is
decode_syndromes(gf, control_count, data, syndromes) ==
    IF AllZero(syndromes)
    THEN \* data[self.control_count..]
         IF control_count > Len(data)
         THEN Panic("range start index out of range for slice")
         ELSE Ok(SubSeq(data, control_count + 1, Len(data)))
    ELSE decode_locator(gf, control_count, data, syndromes,
                        find_error_locator(gf, control_count, syndromes))

\* <ReedSolomon as Coder>::decode
decode(gf, control_count, data) ==
    IF Len(data) > MAX_CODE_LEN
    THEN Err("Message too long and cannot be decoded with GF256")
    ELSE decode_syndromes(gf, control_count, data,
                          calculate_syndromes(gf, control_count, data))

(***************************************************************************)
(* HuffmanTree (archiver crate)                                            *)
(*                                                                         *)
(* An f64 probability is a fraction <<numerator, denominator>>, compared   *)
(* and added exactly.  A code is a sequence of the characters "0" and "1". *)
(* A tree is a record: a Leaf has probability, index and word, a Node has  *)
(* probability, left, right and count_codes.                               *)
(***************************************************************************)
\* a.partial_cmp(b) is Less or Equal, for probabilities
ProbLe(a, b) == a[1] * b[2] <= b[1] * a[2]

\* a.partial_cmp(b) is Less
ProbLt(a, b) == a[1] * b[2] < b[1] * a[2]

\* a + b
ProbAdd(a, b) ==
    IF a[2] = b[2] THEN <<a[1] + b[1], a[2]>>
    ELSE <<a[1] * b[2] + b[1] * a[2], a[2] * b[2]>>

\* HuffmanTree::new_leaf
new_leaf(probability, index, word) ==
    [probability |-> probability, index |-> index, word |-> word]

\* HuffmanTree::is_leaf
is_leaf(tree) == "word" \in DOMAIN tree

\* HuffmanTree::count_codes
count_codes(tree) == IF is_leaf(tree) THEN 1 ELSE tree.count_codes

\* unite with the left subtree on both sides
unite_left_twice(left, right) ==
    [probability |-> ProbAdd(left.probability, right.probability),
     left        |-> left,
     right       |-> left,
     count_codes |-> count_codes(left) + count_codes(right)]

\* HuffmanTree::unite
unite(left, right) ==
    [probability |-> ProbAdd(left.probability, right.probability),
     left        |-> left,
     right       |-> right,
     count_codes |-> count_codes(left) + count_codes(right)]

\* impl PartialOrd / Ord for HuffmanTree: the order is that of the
\* probabilities, reversed; a <= b, a < b, a >= b as BinaryHeap asks them
TreeLe_by_probability(a, b) == ProbLe(a.probability, b.probability)

TreeLe(a, b) == ProbLe(b.probability, a.probability)

TreeLt(a, b) == ProbLt(b.probability, a.probability)

TreeGe(a, b) == ProbLe(a.probability, b.probability)

(***************************************************************************)
(* std::collections::BinaryHeap as HuffmanTree::build uses it: collect,    *)
(* pop and push over the heap's vector `data`, with the Hole that is moved *)
(* through it.  Positions are Rust indices.                                *)
(***************************************************************************)
\* the element taken out of the hole's position is written back (Hole::drop)
HoleFill(data, pos, elt) == [data EXCEPT ![pos + 1] = elt]

\* Hole::move_to: the element at index goes to the hole's position
HoleMove(data, pos, index) == [data EXCEPT ![pos + 1] = data[index + 1]]

\* the greater of the two children of the hole, the right one on a tie:
\* child += (hole.get(child) <= hole.get(child + 1)) as usize
GreaterChild(data, child) ==
    IF TreeLe(data[child + 1], data[child + 2]) THEN child + 1 ELSE child

RECURSIVE sift_down_range_loop(_, _, _, _)
\* BinaryHeap::sift_down_range: the hole sinks while a child is greater
sift_down_range_loop(data, elt, pos, end) ==
    IF end >= 2 /\ 2 * pos + 1 <= end - 2
    THEN IF TreeGe(elt, data[GreaterChild(data, 2 * pos + 1) + 1])
         THEN HoleFill(data, pos, elt)
         ELSE sift_down_range_loop(
                  HoleMove(data, pos, GreaterChild(data, 2 * pos + 1)),
                  elt, GreaterChild(data, 2 * pos + 1), end)
    ELSE IF 2 * pos + 1 = end - 1 /\ TreeLt(elt, data[2 * pos + 2])
    THEN HoleFill(HoleMove(data, pos, 2 * pos + 1), 2 * pos + 1, elt)
    ELSE HoleFill(data, pos, elt)

\* BinaryHeap::sift_down
sift_down(data, pos) == sift_down_range_loop(data, data[pos + 1], pos, Len(data))

RECURSIVE sift_up_loop(_, _, _, _)
\* BinaryHeap::sift_up: the hole rises while its parent is smaller
sift_up_loop(data, elt, start, pos) ==
    IF pos > start /\ ~TreeLe(elt, data[((pos - 1) \div 2) + 1])
    THEN sift_up_loop(HoleMove(data, pos, (pos - 1) \div 2), elt, start, (pos - 1) \div 2)
    ELSE HoleFill(data, pos, elt)

sift_up(data, start, pos) == sift_up_loop(data, data[pos + 1], start, pos)

RECURSIVE sift_down_to_bottom_loop(_, _, _, _)
\* BinaryHeap::sift_down_to_bottom: the hole sinks to a leaf position along
\* the greater children, then the element rises from there
sift_down_to_bottom_loop(data, elt, start, pos) ==
    IF Len(data) >= 2 /\ 2 * pos + 1 <= Len(data) - 2
    THEN sift_down_to_bottom_loop(
             HoleMove(data, pos, GreaterChild(data, 2 * pos + 1)),
             elt, start, GreaterChild(data, 2 * pos + 1))
    ELSE IF 2 * pos + 1 = Len(data) - 1
    THEN sift_up(HoleFill(HoleMove(data, pos, 2 * pos + 1), 2 * pos + 1, elt),
                 start, 2 * pos + 1)
    ELSE sift_up(HoleFill(data, pos, elt), start, pos)

sift_down_to_bottom(data, pos) ==
    sift_down_to_bottom_loop(data, data[pos + 1], pos, pos)

RECURSIVE rebuild_loop(_, _)
\* BinaryHeap::rebuild: `while n > 0 { n -= 1; sift_down(n) }`
rebuild_loop(data, n) ==
    IF n > 0 THEN rebuild_loop(sift_down(data, n - 1), n - 1) ELSE data

\* BinaryHeap::from(vec), behind collect::<BinaryHeap<_>>()
heap_from_vec(vec) == rebuild_loop(vec, Len(vec) \div 2)

\* BinaryHeap::pop on a nonempty heap: the last element replaces the root and
\* is sifted down; [item, data]
heap_pop(data) ==
    IF Len(data) = 1 THEN [item |-> data[1], data |-> <<>>]
    ELSE [item |-> data[1],
          data |-> sift_down_to_bottom(
                       [SubSeq(data, 1, Len(data) - 1) EXCEPT ![1] = data[Len(data)]], 0)]

\* BinaryHeap::push
heap_push(data, item) == sift_up(Append(data, item), 0, Len(data))

RECURSIVE build_loop(_)
\* the second pop and the push of `while heap.len() >= 2`
build_push(item1, popped) == heap_push(popped.data, unite(item1, popped.item))

build_pop(popped) == build_push(popped.item, heap_pop(popped.data))

build_loop(heap) ==
    IF Len(heap) >= 2 THEN build_loop(build_pop(heap_pop(heap)))
    ELSE heap_pop(heap).item

\* HuffmanTree::build; zip stops at the shorter of words and probabilities
build(probabilities, words) ==
    IF Len(probabilities) = 0 THEN Panic("No probabilities provided")
    ELSE IF Len(probabilities) = 1 THEN new_leaf(probabilities[1], 0, words[1])
    ELSE build_loop(heap_from_vec(
             [i \in 1..Min(Len(words), Len(probabilities)) |->
                 new_leaf(probabilities[i], i - 1, words[i])]))

RECURSIVE build_code_pairs_loop(_, _)
\* HuffmanTree::build_code_pairs: breadth first, "0" to the left, "1" to the
\* right; queue entries are [node, code], pairs are [index, code, word]
build_code_pairs_loop(queue, pairs) ==
    IF queue = <<>> THEN pairs
    ELSE IF is_leaf(Head(queue).node)
    THEN build_code_pairs_loop(
             Tail(queue),
             Append(pairs, [index |-> Head(queue).node.index,
                            code  |-> Head(queue).code,
                            word  |-> Head(queue).node.word]))
    ELSE build_code_pairs_loop(
             Tail(queue) \o
                 <<[node |-> Head(queue).node.left,  code |-> Append(Head(queue).code, "0")],
                   [node |-> Head(queue).node.right, code |-> Append(Head(queue).code, "1")]>>,
             pairs)

build_code_pairs(tree) == build_code_pairs_loop(<<[node |-> tree, code |-> <<>>]>>, <<>>)

RECURSIVE build_codes_loop(_, _)
\* `for (index, code, _) in self.build_code_pairs() { codes[index] = code }`
build_codes_loop(codes, pairs) ==
    IF pairs = <<>> THEN codes
    ELSE build_codes_loop([codes EXCEPT ![Head(pairs).index + 1] = Head(pairs).code],
                          Tail(pairs))

\* HuffmanTree::build_codes
build_codes(tree) ==
    build_codes_loop([i \in 1..count_codes(tree) |-> <<>>], build_code_pairs(tree))

RECURSIVE sort_insert(_, _)
\* a stable sort by descending probability: a pair goes behind every pair
\* whose probability is not smaller
sort_insert(sorted, pair) ==
    IF sorted = <<>> THEN <<pair>>
    ELSE IF ProbLt(Head(sorted)[2], pair[2]) THEN <<pair>> \o sorted
    ELSE <<Head(sorted)>> \o sort_insert(Tail(sorted), pair)

RECURSIVE sort_by_loop(_, _)
sort_by_loop(sorted, rest) ==
    IF rest = <<>> THEN sorted
    ELSE sort_by_loop(sort_insert(sorted, Head(rest)), Tail(rest))

\* the unzip that ends sort_words_and_probabilities
sort_unzip(word_probability) ==
    [words         |-> [i \in 1..Len(word_probability) |-> word_probability[i][1]],
     probabilities |-> [i \in 1..Len(word_probability) |-> word_probability[i][2]]]

\* utils::sort_words_and_probabilities
sort_words_and_probabilities(words, probabilities) ==
    sort_unzip(sort_by_loop(<<>>,
        [i \in 1..Min(Len(words), Len(probabilities)) |-> <<words[i], probabilities[i]>>]))

\* Codes::new
Codes_new(words, probabilities, codes) ==
    [words |-> words, probabilities |-> probabilities, codes |-> codes]

IsPanic(r) == "tag" \in DOMAIN r /\ r.tag = "Panic"

\* the last two lines of build_optimal_codes; a panic of build ends the call
build_optimal_codes_codes(sorted, tree) ==
    IF IsPanic(tree) THEN tree
    ELSE Codes_new(sorted.words, sorted.probabilities, build_codes(tree))

build_optimal_codes_tree(sorted) ==
    build_optimal_codes_codes(sorted, build(sorted.probabilities, sorted.words))

\* <HuffmanArchiver as CodesBuilder>::build_optimal_codes
build_optimal_codes(words, probabilities) ==
    build_optimal_codes_tree(sort_words_and_probabilities(words, probabilities))

(***************************************************************************)
(* The archiver: frequency scan, HuffmanArchiver, the archive file and its *)
(* decoding.  A HashMap<u8, _> is a function on its keys; the order its    *)
(* iterator yields them in is not fixed by the program, and is given by a  *)
(* sequence `order` in which every possible key occurs once.               *)
(***************************************************************************)
HashMap_iter(map, order) == SelectSeq(order, LAMBDA k : k \in DOMAIN map)

\* HashMap::insert
HashMap_insert(map, key, value) ==
    [k \in DOMAIN map \cup {key} |-> IF k = key THEN value ELSE map[k]]

RECURSIVE SumTo(_, _)
SumTo(f, n) == IF n = 0 THEN 0 ELSE f[n] + SumTo(f, n - 1)

RECURSIVE Concat(_)
\* the strings or byte vectors of a sequence, one after the other
Concat(parts) == IF parts = <<>> THEN <<>> ELSE Head(parts) \o Concat(Tail(parts))

RECURSIVE to_le_bytes(_, _)
\* uN::to_le_bytes, n bytes
to_le_bytes(value, n) ==
    IF n = 0 THEN <<>> ELSE <<value % 256>> \o to_le_bytes(value \div 256, n - 1)

RECURSIVE from_le_bytes(_)
\* uN::from_le_bytes
from_le_bytes(bytes) ==
    IF bytes = <<>> THEN 0 ELSE Head(bytes) + 256 * from_le_bytes(Tail(bytes))

\* FrequencyMap::new, then consume(buf)
FrequencyMap_consume(buf) ==
    [hashmap |-> [byte \in {buf[i] : i \in 1..Len(buf)} |->
                     Cardinality({i \in 1..Len(buf) : buf[i] = byte})],
     total   |-> Len(buf)]

\* FrequencyMap::build: count as f64 / total as f64
FrequencyMap_build(self) ==
    [byte \in DOMAIN self.hashmap |-> <<self.hashmap[byte], self.total>>]

RECURSIVE FrequencyMap_consume_loop(_, _, _)
\* `for byte in buf`: the count of the byte is incremented, or inserted as 1
FrequencyMap_consume_loop(hashmap, buf, i) ==
    IF i > Len(buf) THEN hashmap
    ELSE FrequencyMap_consume_loop(
             IF buf[i] \in DOMAIN hashmap
             THEN [hashmap EXCEPT ![buf[i]] = hashmap[buf[i]] + 1]
             ELSE HashMap_insert(hashmap, buf[i], 1),
             buf, i + 1)

\* consume that counts the call, not the bytes of the chunk
FrequencyMap_consume_chunk_as_one(self, buf) ==
    [hashmap |-> FrequencyMap_consume_loop(self.hashmap, buf, 1),
     total   |-> self.total + 1]

\* FrequencyMap::consume, on a map that has consumed chunks before
FrequencyMap_consume_chunk(self, buf) ==
    [hashmap |-> FrequencyMap_consume_loop(self.hashmap, buf, 1),
     total   |-> self.total + Len(buf)]

\* utils::create_probabilities_map, on the bytes of the file
create_probabilities_map(bytes) == FrequencyMap_build(FrequencyMap_consume(bytes))

build_optimal_codes_unzip(words_probabilities, keys) ==
    build_optimal_codes(keys, [i \in 1..Len(keys) |-> words_probabilities[keys[i]]])

\* CodesBuilder::build_optimal_codes_from_hashmap
build_optimal_codes_from_hashmap(words_probabilities, order) ==
    build_optimal_codes_unzip(words_probabilities,
                              HashMap_iter(words_probabilities, order))

\* Codes::mean_code_length: the sum of code length times probability
mean_code_length(self) ==
    <<SumTo([i \in 1..Len(self.codes) |->
                Len(self.codes[i]) * self.probabilities[i][1]], Len(self.codes)),
      IF Len(self.codes) = 0 THEN 1 ELSE self.probabilities[1][2]>>

\* `.ceil() as u16` of a nonnegative f64: the cast saturates
ceil_as_u16(x) == Min((x[1] + x[2] - 1) \div x[2], 65535)

\* impl Into<HashMap<u8, String>> for Codes
Codes_into(self) ==
    IF \E i, j \in 1..Len(self.words) : i < j /\ self.words[i] = self.words[j]
    THEN Panic("Duplicate code for word")
    ELSE Ok([word \in {self.words[i] : i \in 1..Len(self.words)} |->
                self.codes[CHOOSE i \in 1..Len(self.words) : self.words[i] = word]])

\* HuffmanArchiver::_new; a panic while its word_code argument is computed
\* ends the call
HuffmanArchiver__new(mean, word_code) ==
    IF word_code.tag = "Panic" THEN word_code
    ELSE [mean_code_length |-> mean, word_code |-> word_code.val]

HuffmanArchiver_new_codes(codes) ==
    IF IsPanic(codes) THEN codes
    ELSE HuffmanArchiver__new(ceil_as_u16(mean_code_length(codes)), Codes_into(codes))

\* HuffmanArchiver::new
HuffmanArchiver_new(words_probabilities, order) ==
    HuffmanArchiver_new_codes(build_optimal_codes_from_hashmap(words_probabilities, order))

\* <HuffmanArchiver as Encoder>::convert_to_string
Encoder_convert_to_string(self, bytes) ==
    IF \E i \in 1..Len(bytes) : bytes[i] \notin DOMAIN self.word_code
    THEN Panic("Unknown byte")
    ELSE Ok(Concat([i \in 1..Len(bytes) |-> self.word_code[bytes[i]]]))

RECURSIVE BitsValue(_)
\* `byte <<= 1; if b == b'1' { byte |= 1 }` over at most 8 characters
BitsValue(chunk) ==
    IF chunk = <<>> THEN 0
    ELSE 2 * BitsValue(SubSeq(chunk, 1, Len(chunk) - 1))
         + (IF chunk[Len(chunk)] = "1" THEN 1 ELSE 0)

Encoder_pack(bit_string) ==
    [k \in 1..(Len(bit_string) \div 8) |->
        BitsValue(SubSeq(bit_string, 8 * k - 7, 8 * k))]

\* Encoder::convert_to_bytes: zero padding up to a whole byte, then 8 bits a
\* byte, the first bit the highest
Encoder_convert_to_bytes(bit_string) ==
    Encoder_pack(bit_string \o [i \in 1..((8 - (Len(bit_string) % 8)) % 8) |-> "0"])

Encoder_encode_bits(bit_string) ==
    IF bit_string.tag = "Panic" THEN bit_string
    ELSE Ok(Encoder_convert_to_bytes(bit_string.val))

\* Encoder::encode_bytes (Encoder::encode_file on the bytes read)
encode_bytes(self, bytes) == Encoder_encode_bits(Encoder_convert_to_string(self, bytes))

RECURSIVE utils_convert_to_bytes_loop(_, _, _)
utils_convert_to_bytes_loop(result, s, i) ==
    IF i > Len(s) THEN result
    ELSE utils_convert_to_bytes_loop(
             ((result * 2) % 65536) + (IF s[i] = "1" THEN 1 ELSE 0), s, i + 1)

\* utils::convert_to_bytes::<u16>: bits shifted out of the 16 are lost
utils_convert_to_bytes(s) == utils_convert_to_bytes_loop(0, s, 1)

\* one entry of the state: word, code.len() as u8, the code as u16
save_state_item(word, code) ==
    <<word, Len(code) % 256>> \o to_le_bytes(utils_convert_to_bytes(code), 2)

save_state_items(self, items) ==
    Concat([i \in 1..Len(items) |-> save_state_item(items[i], self.word_code[items[i]])])
        \o to_le_bytes(self.mean_code_length, 2)

\* <HuffmanArchiver as StateSaver>::save_state: the entries follow the
\* iteration of word_code (unsorted outside of tests)
save_state(self, order) == save_state_items(self, HashMap_iter(self.word_code, order))

\* StateSaver::write_state, as the bytes written
write_state(state) == to_le_bytes(Len(state), 8) \o state

FileEncoder_encode_file_write(state, original_size, encoded_file) ==
    IF encoded_file.tag = "Panic" THEN encoded_file
    ELSE Ok(write_state(state) \o to_le_bytes(original_size, 8) \o encoded_file.val)

\* FileEncoder::encode_file: the bytes of the destination file
FileEncoder_encode_file(self, target, order) ==
    FileEncoder_encode_file_write(save_state(self, order), Len(target),
                                  encode_bytes(self, target))

archive_encoder(encoder, target, order) ==
    IF IsPanic(encoder) THEN encoder
    ELSE FileEncoder_encode_file(encoder, target, order)

\* HuffmanArchiver::archive on a file holding `target`; probabilities_order
\* and state_order are the iteration orders of the probability map and of
\* word_code
archive(target, probabilities_order, state_order) ==
    archive_encoder(
        HuffmanArchiver_new(create_probabilities_map(target), probabilities_order),
        target, state_order)

\* usize::MAX, the index of an empty leaf, as the largest integer there is
\* here; the index of a word is below 256
usize_MAX == (2 ^ 30 - 1) * 2 + 1

empty_leaf == new_leaf(<<0, 1>>, usize_MAX, 0)

\* HuffmanTree::new_empty_node
new_empty_node ==
    [probability |-> <<0, 1>>, left |-> empty_leaf, right |-> empty_leaf,
     count_codes |-> 0]

\* HuffmanTree::is_empty_leaf
is_empty_leaf(tree) == is_leaf(tree) /\ tree.index = usize_MAX

IsErr(r) == "tag" \in DOMAIN r /\ r.tag = "Err"

RECURSIVE restore_walk(_, _, _, _)
restore_attach(current, bit, next_node) ==
    IF IsErr(next_node) THEN next_node
    ELSE IF bit = "0" THEN [current EXCEPT !.left = next_node]
    ELSE [current EXCEPT !.right = next_node]

restore_next(next_node) ==
    IF is_empty_leaf(next_node) THEN new_empty_node ELSE next_node

\* the walk of one code from `current` on, from its i-th bit; what stands at
\* the end of the code is replaced by the leaf of the word
restore_walk(current, word, code, i) ==
    IF i > Len(code) THEN new_leaf(<<0, 1>>, word, word)
    ELSE IF code[i] \notin {"0", "1"} THEN Err("Invalid code for word")
    ELSE IF is_leaf(current) THEN Err("Invalid code structure: prefix conflict")
    ELSE restore_attach(
             current, code[i],
             restore_walk(restore_next(IF code[i] = "0" THEN current.left
                                       ELSE current.right),
                          word, code, i + 1))

RECURSIVE restore_loop(_, _, _, _)
\* `for (word, code) in codes`
restore_loop(root, codes, items, k) ==
    IF IsErr(root) THEN root
    ELSE IF k > Len(items) THEN Ok(root)
    ELSE restore_loop(restore_walk(root, items[k], codes[items[k]], 1),
                      codes, items, k + 1)

\* HuffmanTree::restore_from_word_code
restore_from_word_code(codes, order) ==
    IF DOMAIN codes = {} THEN Err("Cannot restore HuffmanTree: no codes provided")
    ELSE restore_loop([probability |-> <<0, 1>>, left |-> empty_leaf,
                       right |-> empty_leaf, count_codes |-> Cardinality(DOMAIN codes)],
                      codes, HashMap_iter(codes, order), 1)

RECURSIVE decode_string_loop(_, _, _, _, _)
decode_string_step(tree, next, bit_string, i, decoded) ==
    IF is_leaf(next)
    THEN decode_string_loop(tree, tree, bit_string, i + 1, Append(decoded, next.word))
    ELSE decode_string_loop(tree, next, bit_string, i + 1, decoded)

\* <HuffmanDecoder as Decoder>::decode_string: a leaf has no left and no right
decode_string_loop(tree, node, bit_string, i, decoded) ==
    IF i > Len(bit_string) THEN Ok(decoded)
    ELSE IF bit_string[i] \notin {"0", "1"} \/ is_leaf(node)
    THEN Err("Invalid bit string")
    ELSE decode_string_step(tree,
                            IF bit_string[i] = "0" THEN node.left ELSE node.right,
                            bit_string, i, decoded)

HuffmanDecoder_decode_string(tree, bit_string) ==
    decode_string_loop(tree, tree, bit_string, 1, <<>>)

\* utils::convert_to_string: the 8 bits of every byte, the highest first
utils_convert_to_string(bytes) ==
    Concat([i \in 1..Len(bytes) |->
               [bit \in 1..8 |-> IF (bytes[i] \div (2 ^ (8 - bit))) % 2 = 1
                                 THEN "1" ELSE "0"]])

RECURSIVE format_digits(_)
\* the binary digits of a number, one at least
format_digits(value) ==
    IF value < 2 THEN <<IF value = 1 THEN "1" ELSE "0">>
    ELSE Append(format_digits(value \div 2), IF value % 2 = 1 THEN "1" ELSE "0")

format_pad(digits, width) ==
    [i \in 1..(width - Len(digits)) |-> "0"] \o digits

\* format!("{:0width$b}", code_value, width = code_len)
format_binary(code_value, width) == format_pad(format_digits(code_value), width)

RECURSIVE build_word_code_loop(_, _, _)
\* HuffmanArchiver::build_word_code: i is the Rust index plus one; state[i + 1]
\* and the two bytes after it are indexed whatever the length is
build_word_code_loop(word_code, state, i) ==
    IF i > Len(state) THEN Ok(word_code)
    ELSE IF i + 3 > Len(state) THEN Panic("index out of bounds")
    ELSE build_word_code_loop(
             HashMap_insert(word_code, state[i],
                            format_binary(from_le_bytes(<<state[i + 2], state[i + 3]>>),
                                          state[i + 1])),
             state, i + 4)

build_word_code(state) == build_word_code_loop(<<>>, state, 1)

\* <HuffmanArchiver as StateSaver>::load_state
load_state(state) ==
    IF Len(state) < 2
    THEN Panic("State must contain at least 2 bytes for mean_code_length")
    ELSE HuffmanArchiver__new(
             from_le_bytes(SubSeq(state, Len(state) - 1, Len(state))),
             build_word_code(SubSeq(state, 1, Len(state) - 2)))

read_state_sized(file, state_size) ==
    IF state_size = 0 THEN Err("Invalid state size: 0")
    ELSE IF Len(file) - 8 < state_size THEN Err("Failed to read state")
    ELSE Ok(SubSeq(file, 9, 8 + state_size))

\* StateSaver::read_state, on the bytes of the file
read_state(file) ==
    IF Len(file) < 8 THEN Err("Failed to read state size")
    ELSE read_state_sized(file, from_le_bytes(SubSeq(file, 1, 8)))

decode_with_tree(tree, bit_string) ==
    IF IsErr(tree) THEN tree
    ELSE HuffmanDecoder_decode_string(tree.val, bit_string)

\* <HuffmanArchiver as Decoder>::decode_string: decoder() restores the tree
HuffmanArchiver_decode_string(self, bit_string, order) ==
    decode_with_tree(restore_from_word_code(self.word_code, order), bit_string)

\* Option<HuffmanDecoder>
None == [tag |-> "None"]

Some(decoder) == [tag |-> "Some", val |-> decoder]

\* HuffmanArchiver::_new, the decoder cell included
HuffmanArchiver__new_cell(mean, word_code) ==
    [word_code |-> word_code, mean_code_length |-> mean,
     decoder |-> None]

\* a clone that copies the decoder cell as well
HuffmanArchiver_clone_with_decoder(self) ==
    [word_code |-> self.word_code, mean_code_length |-> self.mean_code_length,
     decoder |-> self.decoder]

\* <HuffmanArchiver as Clone>::clone
HuffmanArchiver_clone(self) ==
    [word_code |-> self.word_code, mean_code_length |-> self.mean_code_length,
     decoder |-> None]

\* `let decoder = HuffmanDecoder::try_from(&self.word_code)?;
\*  *self.decoder.borrow_mut() = Some(decoder);`
decoder_store(self, restored) ==
    IF IsErr(restored) THEN [self |-> self, ref |-> restored]
    ELSE [self |-> [self EXCEPT !.decoder = Some(restored.val)], ref |-> restored]

\* HuffmanArchiver::decoder: the archiver after the call, and the Ref returned
HuffmanArchiver_decoder(self, order) ==
    IF self.decoder.tag = "None"
    THEN decoder_store(self, restore_from_word_code(self.word_code, order))
    ELSE [self |-> self, ref |-> Ok(self.decoder.val)]

decode_string_with(called, bit_string) ==
    [self |-> called.self, result |-> decode_with_tree(called.ref, bit_string)]

\* <HuffmanArchiver as Decoder>::decode_string, with the decoder cell:
\* `self.decoder()?.decode_string(bit_string)`
HuffmanArchiver_decode_string_cell(self, bit_string, order) ==
    decode_string_with(HuffmanArchiver_decoder(self, order), bit_string)

\* Decoder::decode_bytes
decode_bytes(self, bytes, order) ==
    HuffmanArchiver_decode_string(self, utils_convert_to_string(bytes), order)

decode_truncate(decoded, original_size) ==
    IF IsErr(decoded) THEN decoded
    ELSE IF Len(decoded.val) > original_size
    THEN Ok(SubSeq(decoded.val, 1, original_size))
    ELSE decoded

\* FileDecoder::decode_and_write: the bytes written to the destination
decode_and_write(self, bytes, original_size, order) ==
    decode_truncate(decode_bytes(self, bytes, order), original_size)

decode_file_load(decoder, bytes, original_size, order) ==
    IF IsPanic(decoder) THEN decoder
    ELSE decode_and_write(decoder, bytes, original_size, order)

decode_file_state(file, state, order) ==
    IF IsErr(state) THEN state
    ELSE IF Len(file) - 8 - Len(state.val) < 8 THEN Err("Failed to read original size")
    ELSE decode_file_load(
             load_state(state.val),
             SubSeq(file, 17 + Len(state.val), Len(file)),
             from_le_bytes(SubSeq(file, 9 + Len(state.val), 16 + Len(state.val))),
             order)

\* FileDecoder::decode_file on a file holding `file`; order is the iteration
\* order of the word_code the state is loaded into
decode_file(file, order) == decode_file_state(file, read_state(file), order)

(***************************************************************************)
(* BlockCoder: a coder applied to the consecutive chunks of its input      *)
(***************************************************************************)
\* slice::chunks_exact: the chunks of block_size elements, without the rest
chunks_exact(data, block_size) ==
    [k \in 1..(Len(data) \div block_size) |->
        SubSeq(data, (k - 1) * block_size + 1, k * block_size)]

\* slice::chunks: consecutive chunks of block_size elements, the last one
\* with what is left
chunks(data, block_size) ==
    [k \in 1..((Len(data) + block_size - 1) \div block_size) |->
        SubSeq(data, (k - 1) * block_size + 1, Min(k * block_size, Len(data)))]

RECURSIVE encode_blocks_loop(_, _, _, _, _, _)
\* `let encoded_block = self.encode(chunk)?; blocks.push(encoded_block);`
encode_blocks_push(gf, control_count, gen_poly, chunk_list, k, blocks, encoded_block) ==
    IF encoded_block.tag # "Ok" THEN encoded_block
    ELSE encode_blocks_loop(gf, control_count, gen_poly, chunk_list, k + 1,
                            Append(blocks, encoded_block.val))

encode_blocks_loop(gf, control_count, gen_poly, chunk_list, k, blocks) ==
    IF k > Len(chunk_list) THEN Ok(blocks)
    ELSE encode_blocks_push(gf, control_count, gen_poly, chunk_list, k, blocks,
                            encode(gf, control_count, gen_poly, chunk_list[k]))

\* BlockCoder::encode_blocks
encode_blocks(gf, control_count, gen_poly, data, block_size) ==
    encode_blocks_loop(gf, control_count, gen_poly, chunks(data, block_size), 1, <<>>)

RECURSIVE decode_blocks_loop(_, _, _, _, _)
\* `let decoded_block = self.decode(chunk)?; blocks.push(decoded_block);`
decode_blocks_push(gf, control_count, chunk_list, k, blocks, decoded_block) ==
    IF decoded_block.tag # "Ok" THEN decoded_block
    ELSE decode_blocks_loop(gf, control_count, chunk_list, k + 1,
                            Append(blocks, decoded_block.val))

decode_blocks_loop(gf, control_count, chunk_list, k, blocks) ==
    IF k > Len(chunk_list) THEN Ok(blocks)
    ELSE decode_blocks_push(gf, control_count, chunk_list, k, blocks,
                            decode(gf, control_count, chunk_list[k]))

\* BlockCoder::decode_blocks
decode_blocks(gf, control_count, data, block_size) ==
    decode_blocks_loop(gf, control_count, chunks(data, block_size), 1, <<>>)

\* `blocks.into_iter().flatten().collect()` of an Ok, the error otherwise
blocks_to_vec(blocks) ==
    IF blocks.tag = "Ok" THEN Ok(Concat(blocks.val)) ELSE blocks

\* BlockCoder::decode_blocks_to_vec
decode_blocks_to_vec(gf, control_count, data, block_size) ==
    blocks_to_vec(decode_blocks(gf, control_count, data, block_size))

\* BlockCoder::encode_blocks_to_vec
encode_blocks_to_vec(gf, control_count, gen_poly, data, block_size) ==
    blocks_to_vec(encode_blocks(gf, control_count, gen_poly, data, block_size))

(***************************************************************************)
(* utils (qr_code_generator crate): bits are booleans, the highest first   *)
(***************************************************************************)
RECURSIVE bits_to_bytes_fold(_, _, _)
\* `chunk.iter().fold(0u8, |acc, &bit| (acc << 1) | bit as u8)`
bits_to_bytes_fold(acc, chunk, i) ==
    IF i > Len(chunk) THEN acc
    ELSE bits_to_bytes_fold(((acc * 2) % 256) + (IF chunk[i] THEN 1 ELSE 0), chunk, i + 1)

\* utils::bits_to_bytes
bits_to_bytes(bits) ==
    IF Len(bits) % 8 # 0 THEN Err("Invalid length, must be a multiple of 8")
    ELSE Ok([k \in 1..(Len(bits) \div 8) |->
                bits_to_bytes_fold(0, SubSeq(bits, 8 * k - 7, 8 * k), 1)])

\* the bits of a byte pushed from bit 0 up
byte_to_bits_low_first(byte) == [k \in 1..8 |-> (byte \div (2 ^ (k - 1))) % 2 # 0]

\* utils::byte_to_bits: `for bit in (0..8).rev()`, byte & (1 << bit) != 0
byte_to_bits(byte) == [k \in 1..8 |-> (byte \div (2 ^ (8 - k))) % 2 # 0]

\* utils::bytes_to_bits
bytes_to_bits(bytes) == Concat([i \in 1..Len(bytes) |-> byte_to_bits(bytes[i])])

(***************************************************************************)
(* QR code blocks: the data split into blocks, the blocks interleaved      *)
(***************************************************************************)
\* `blocks.extend(part2.chunks(info2.size())...)` when part2 is not empty
split_into_blocks_extend(blocks, part2, size2) ==
    IF Len(part2) = 0 THEN Ok(blocks)
    ELSE IF size2 = 0 THEN Panic("chunk size must be non-zero")
    ELSE Ok(blocks \o chunks(part2, size2))

\* BlocksInfo::split_into_blocks, after BlocksInfo::fetch returned info:
\* anyhow::ensure!(cond, ..) returns the error when cond is false
split_into_blocks(data, info) ==
    IF ~(Len(data) # info.count1 * info.size1 + info.count2 * info.size2)
    THEN Err("The data length does not match the number of blocks and block sizes")
    ELSE IF info.size1 * info.count1 > Len(data) THEN Panic("mid > len")
    ELSE IF info.size1 = 0 THEN Panic("chunk size must be non-zero")
    ELSE split_into_blocks_extend(
             chunks(SubSeq(data, 1, info.size1 * info.count1), info.size1),
             SubSeq(data, info.size1 * info.count1 + 1, Len(data)), info.size2)

\* `for block in blocks { if let Some(&byte) = block.as_slice().get(i) ..`
combine_blocks_round(blocks, i) ==
    [k \in 1..Len(SelectSeq(blocks, LAMBDA block : i <= Len(block))) |->
        SelectSeq(blocks, LAMBDA block : i <= Len(block))[k][i]]

\* QRCode::combine_blocks: `for i in 0..blocks.len()`
combine_blocks(blocks) ==
    IF Len(blocks) = 0 THEN Panic("blocks slice is empty")
    ELSE Ok(Concat([i \in 1..Len(blocks) |-> combine_blocks_round(blocks, i)]))

(***************************************************************************)
(* Field calls: one action per trait method, applied to both               *)
(* implementations on the same operands.                                   *)
(***************************************************************************)
GfInit ==
    /\ gf_a \in Byte
    /\ gf_b \in Byte
    /\ gf_op = "none"
    /\ gf_fast = Ok(0)
    /\ gf_simple = Ok(0)

\* add(a, b): the trait's own method, the same for both implementations
GfAdd ==
    /\ gf_op = "none"
    /\ gf_op' = "add"
    /\ gf_fast' = Ok(add(gf_a, gf_b))
    /\ gf_simple' = Ok(add(gf_a, gf_b))
    /\ UNCHANGED <<gf_a, gf_b>>
    /\ UNCHANGED not_gf

\* mul(a, b)
GfMul ==
    /\ gf_op = "none"
    /\ gf_op' = "mul"
    /\ gf_fast' = Ok(mul(Fast, gf_a, gf_b))
    /\ gf_simple' = Ok(mul(Simple, gf_a, gf_b))
    /\ UNCHANGED <<gf_a, gf_b>>
    /\ UNCHANGED not_gf

\* div(a, b)
GfDiv ==
    /\ gf_op = "none"
    /\ gf_op' = "div"
    /\ gf_fast' = div(Fast, gf_a, gf_b)
    /\ gf_simple' = div(Simple, gf_a, gf_b)
    /\ UNCHANGED <<gf_a, gf_b>>
    /\ UNCHANGED not_gf

\* pow(a, n) with n = b
GfPow ==
    /\ gf_op = "none"
    /\ gf_op' = "pow"
    /\ gf_fast' = Ok(pow(Fast, gf_a, gf_b))
    /\ gf_simple' = Ok(pow(Simple, gf_a, gf_b))
    /\ UNCHANGED <<gf_a, gf_b>>
    /\ UNCHANGED not_gf

\* inverse(a)
GfInverse ==
    /\ gf_op = "none"
    /\ gf_op' = "inverse"
    /\ gf_fast' = inverse(Fast, gf_a)
    /\ gf_simple' = inverse(Simple, gf_a)
    /\ UNCHANGED <<gf_a, gf_b>>
    /\ UNCHANGED not_gf

GfNext == GfAdd \/ GfMul \/ GfDiv \/ GfPow \/ GfInverse

(***************************************************************************)
(* Reed-Solomon codec: construct, encode, corrupt in transit, decode       *)
(***************************************************************************)
MaxControlCount == 4
MaxMessageLen == 1
MaxErrors == 4
MaxReceivedLen == 2

\* message bytes, and the values a corrupted position may take
MessageBytes == {0, 1}
ErrorBytes == {2, 3, 5}

Zeros(n) == [i \in 1..n |-> 0]

\* all sequences over S of length 0..n
SeqsUpTo(S, n) == UNION {[1..k -> S] : k \in 0..n}

\* ReedSolomon::new, then the caller's message: short ones over MessageBytes,
\* and for each control count the shortest message that is too long
RsInit ==
    /\ rs_control_count \in 0..MaxControlCount
    /\ rs_gen_poly = build_gen_poly(Fast, rs_control_count)
    /\ rs_message \in SeqsUpTo(MessageBytes, MaxMessageLen)
                      \cup {Zeros(MAX_CODE_LEN + 1 - rs_control_count)}
    /\ rs_encoded = Err("not called")
    /\ rs_data = <<>>
    /\ rs_errors = {}
    /\ rs_pc = "new"
    /\ rs_decoded = Err("not called")

\* encode(message); its output is what is sent
RsEncode ==
    /\ rs_pc = "new"
    /\ rs_encoded' = encode(Fast, rs_control_count, rs_gen_poly, rs_message)
    /\ rs_data' = IF rs_encoded'.tag = "Ok" THEN rs_encoded'.val ELSE rs_data
    /\ rs_pc' = "encoded"
    /\ UNCHANGED <<rs_control_count, rs_gen_poly, rs_message, rs_errors, rs_decoded>>
    /\ UNCHANGED not_rs

\* the channel changes one more byte position to another value
RsCorrupt ==
    /\ rs_pc = "encoded"
    /\ rs_encoded.tag = "Ok"
    /\ Cardinality(rs_errors) < MaxErrors
    /\ \E pos \in (0..(Len(rs_data) - 1)) \ rs_errors :
       \E v \in ErrorBytes \ {rs_data[pos + 1]} :
          /\ rs_data' = [rs_data EXCEPT ![pos + 1] = v]
          /\ rs_errors' = rs_errors \cup {pos}
    /\ UNCHANGED <<rs_control_count, rs_gen_poly, rs_message, rs_encoded, rs_pc,
                   rs_decoded>>
    /\ UNCHANGED not_rs

\* instead of an encoded word, any byte sequence reaches decode
RsReceive ==
    /\ rs_pc = "new"
    /\ rs_data' \in SeqsUpTo(MessageBytes, MaxReceivedLen) \cup {Zeros(MAX_CODE_LEN + 1)}
    /\ rs_pc' = "received"
    /\ UNCHANGED <<rs_control_count, rs_gen_poly, rs_message, rs_encoded, rs_errors,
                   rs_decoded>>
    /\ UNCHANGED not_rs

\* decode(data)
RsDecode ==
    /\ rs_pc \in {"encoded", "received"}
    /\ rs_pc = "encoded" => rs_encoded.tag = "Ok"
    /\ rs_decoded' = decode(Fast, rs_control_count, rs_data)
    /\ rs_pc' = IF rs_pc = "encoded" THEN "decoded" ELSE "decoded_received"
    /\ UNCHANGED <<rs_control_count, rs_gen_poly, rs_message, rs_encoded, rs_data,
                   rs_errors>>
    /\ UNCHANGED not_rs

RsNext == RsEncode \/ RsCorrupt \/ RsReceive \/ RsDecode

(***************************************************************************)
(* The code builder on its own: a list of (word, probability) pairs is     *)
(* given to build_optimal_codes, or as it stands to HuffmanTree::build.    *)
(* Probabilities are multiples of a power of two, which f64 holds and adds *)
(* exactly.                                                                *)
(***************************************************************************)
MaxSymbols == 4

MaxWeight == 4

WeightUnit == 2 ^ MaxSymbols

HfInit ==
    \E n \in 0..MaxSymbols : \E weights \in [1..n -> 0..MaxWeight] :
        /\ hf_words = [i \in 1..n |-> 96 + i]
        /\ hf_probabilities = [i \in 1..n |-> <<weights[i], WeightUnit>>]
        /\ hf_pc = "input"
        /\ hf_codes = Codes_new(<<>>, <<>>, <<>>)

\* build_optimal_codes(words, probabilities)
HfBuildOptimalCodes ==
    /\ hf_pc = "input"
    /\ hf_pc' = "codes"
    /\ hf_codes' = build_optimal_codes(hf_words, hf_probabilities)
    /\ UNCHANGED <<hf_words, hf_probabilities>>
    /\ UNCHANGED not_hf

\* the codes of a tree beside the words and probabilities it was built from
HfTreeCodes(words, probabilities, tree) ==
    IF IsPanic(tree) THEN tree
    ELSE Codes_new(words, probabilities, build_codes(tree))

\* HuffmanTree::build(&probabilities, &words).build_codes()
HfBuild ==
    /\ hf_pc = "input"
    /\ hf_pc' = "tree"
    /\ hf_codes' = HfTreeCodes(hf_words, hf_probabilities,
                               build(hf_probabilities, hf_words))
    /\ UNCHANGED <<hf_words, hf_probabilities>>
    /\ UNCHANGED not_hf

HfNext == HfBuildOptimalCodes \/ HfBuild

(***************************************************************************)
(* The archiver on its own: a file is archived, archived a second time,    *)
(* and the first archive is decoded.  Every HashMap the calls iterate      *)
(* yields its keys in an order that is chosen anew.                        *)
(***************************************************************************)
MaxInputLen == 3

ArBytes == {97, 98, 99}

\* the orders a HashMap with keys among ArBytes can be iterated in
Orders ==
    {order \in [1..Cardinality(ArBytes) -> ArBytes] :
        \A i, j \in 1..Cardinality(ArBytes) : i # j => order[i] # order[j]}

ArInit ==
    /\ ar_input \in SeqsUpTo(ArBytes, MaxInputLen)
    /\ ar_pc = "input"
    /\ ar_archive = Err("not called")
    /\ ar_archive2 = Err("not called")
    /\ ar_decoded = Err("not called")

\* HuffmanArchiver::archive(target, destination)
ArArchive ==
    /\ ar_pc = "input"
    /\ ar_pc' = "archived"
    /\ \E probabilities_order \in Orders, state_order \in Orders :
           ar_archive' = archive(ar_input, probabilities_order, state_order)
    /\ UNCHANGED <<ar_input, ar_archive2, ar_decoded>>
    /\ UNCHANGED not_ar

\* HuffmanArchiver::archive of the same target, to a second destination
ArArchiveAgain ==
    /\ ar_pc = "archived"
    /\ ar_pc' = "archived_twice"
    /\ \E probabilities_order \in Orders, state_order \in Orders :
           ar_archive2' = archive(ar_input, probabilities_order, state_order)
    /\ UNCHANGED <<ar_input, ar_archive, ar_decoded>>
    /\ UNCHANGED not_ar

\* HuffmanArchiver::decode_file(target, destination) on the archive written
ArDecode ==
    /\ ar_pc = "archived"
    /\ ar_archive.tag = "Ok"
    /\ ar_pc' = "decoded"
    /\ \E order \in Orders : ar_decoded' = decode_file(ar_archive.val, order)
    /\ UNCHANGED <<ar_input, ar_archive, ar_archive2>>
    /\ UNCHANGED not_ar

ArNext == ArArchive \/ ArArchiveAgain \/ ArDecode

(***************************************************************************)
(* The construction of a codec on its own: ReedSolomon::new for a parity   *)
(* count and a field implementation.                                       *)
(***************************************************************************)
MaxParity == 32

\* ReedSolomon::new: the gen_poly of the codec, or the panic
ReedSolomon_new(control_count, gf) ==
    IF control_count > 255
    THEN Panic("The number of control characters cannot exceed 255")
    ELSE Ok(build_gen_poly(gf, control_count))

GpInit ==
    /\ gp_control_count \in 0..MaxParity \cup {256}
    /\ gp_gf \in Impls
    /\ gp_pc = "input"
    /\ gp_gen_poly = Err("not called")

GpNew ==
    /\ gp_pc = "input"
    /\ gp_pc' = "new"
    /\ gp_gen_poly' = ReedSolomon_new(gp_control_count, gp_gf)
    /\ UNCHANGED <<gp_control_count, gp_gf>>
    /\ UNCHANGED not_gp

GpNext == GpNew

(***************************************************************************)
(* Polynomial division on its own: _div_poly for a dividend and a divisor  *)
(***************************************************************************)
MaxPolyLen == 3

PolyBytes == {0, 1, 2, 3}

DpInit ==
    /\ dp_gf \in Impls
    /\ dp_dividend \in SeqsUpTo(PolyBytes, MaxPolyLen)
    /\ dp_divisor \in SeqsUpTo(PolyBytes, MaxPolyLen)
    /\ dp_pc = "input"
    /\ dp_result = Err("not called")

\* GF256Poly::_div_poly(dividend, divisor)
DpDivPoly ==
    /\ dp_pc = "input"
    /\ dp_pc' = "divided"
    /\ dp_result' = _div_poly(dp_gf, dp_dividend, dp_divisor)
    /\ UNCHANGED <<dp_gf, dp_dividend, dp_divisor>>
    /\ UNCHANGED not_dp

DpNext == DpDivPoly

(***************************************************************************)
(* The state of an archiver on its own: save_state of an archiver with a   *)
(* given code table, then load_state of the bytes it returned.             *)
(***************************************************************************)
MaxShortCode == 2

StWords == {97, 98}

StMeans == {1, 258}

BitStrings(n) == UNION {[1..k -> {"0", "1"}] : k \in 0..n}

\* the codes of the tables: every short one, and three of 16 bits
StCodes ==
    BitStrings(MaxShortCode)
        \cup {[i \in 1..16 |-> "1"],
              [i \in 1..16 |-> IF i = 1 THEN "1" ELSE "0"],
              [i \in 1..16 |-> IF i = 16 THEN "1" ELSE "0"]}

\* the tables: a code for each word of a subset of StWords
StTables == UNION {[words -> StCodes] : words \in SUBSET StWords}

StOrders ==
    {order \in [1..Cardinality(StWords) -> StWords] :
        \A i, j \in 1..Cardinality(StWords) : i # j => order[i] # order[j]}

StInit ==
    /\ st_self \in [mean_code_length : StMeans, word_code : StTables]
    /\ st_order \in StOrders
    /\ st_pc = "input"
    /\ st_state = Err("not called")
    /\ st_loaded = Err("not called")

\* <HuffmanArchiver as StateSaver>::save_state
StSaveState ==
    /\ st_pc = "input"
    /\ st_pc' = "saved"
    /\ st_state' = Ok(save_state(st_self, st_order))
    /\ UNCHANGED <<st_self, st_order, st_loaded>>
    /\ UNCHANGED not_st

\* <HuffmanArchiver as StateSaver>::load_state of the bytes saved
StLoadState ==
    /\ st_pc = "saved"
    /\ st_pc' = "loaded"
    /\ st_loaded' = load_state(st_state.val)
    /\ UNCHANGED <<st_self, st_order, st_state>>
    /\ UNCHANGED not_st

StNext == StSaveState \/ StLoadState

(***************************************************************************)
(* The code table of a file: the file is given by the FrequencyMap its     *)
(* scan leaves (the count of every byte and the total), from which         *)
(* HuffmanArchiver::new builds the codes and save_state the entries.       *)
(***************************************************************************)
MaxFileSymbols == 18

RECURSIVE Fibonacci(_)
Fibonacci(i) == IF i <= 2 THEN 1 ELSE Fibonacci(i - 1) + Fibonacci(i - 2)

\* the byte counts of the files: n distinct bytes 1..n, byte i occurring
\* Fibonacci(i) times, once, i times, or once but for byte 1
FqCounts(n) ==
    {[i \in 1..n |-> Fibonacci(i)],
     [i \in 1..n |-> 1],
     [i \in 1..n |-> i],
     [i \in 1..n |-> IF i = 1 THEN 2 * n ELSE 1]}

FqOrders == {[i \in 1..MaxFileSymbols |-> i],
             [i \in 1..MaxFileSymbols |-> MaxFileSymbols + 1 - i]}

\* FrequencyMap::consume has read the file
FqInit ==
    /\ \E n \in 1..MaxFileSymbols : \E counts \in FqCounts(n) :
           fq_map = [hashmap |-> counts, total |-> SumTo(counts, n)]
    /\ fq_order \in FqOrders
    /\ fq_pc = "input"
    /\ fq_archiver = Err("not called")
    /\ fq_state = Err("not called")

\* HuffmanArchiver::archive up to the encoder: FrequencyMap::build and
\* HuffmanArchiver::new
FqNew ==
    /\ fq_pc = "input"
    /\ fq_pc' = "built"
    /\ fq_archiver' = HuffmanArchiver_new(FrequencyMap_build(fq_map), fq_order)
    /\ UNCHANGED <<fq_map, fq_order, fq_state>>
    /\ UNCHANGED not_fq

\* save_state of the archiver built
FqSaveState ==
    /\ fq_pc = "built"
    /\ "tag" \notin DOMAIN fq_archiver
    /\ fq_pc' = "saved"
    /\ fq_state' = Ok(save_state(fq_archiver, fq_order))
    /\ UNCHANGED <<fq_map, fq_order, fq_archiver>>
    /\ UNCHANGED not_fq

FqNext == FqNew \/ FqSaveState

(***************************************************************************)
(* The decoder on its own: restore_from_word_code of a code table, then    *)
(* decode_string of a bit string with the tree restored.                   *)
(***************************************************************************)
MaxBits == 3

\* the tables: a code of up to MaxShortCode bits for each word of a subset
\* of StWords
RdTables == UNION {[words -> BitStrings(MaxShortCode)] : words \in SUBSET StWords}

RdInit ==
    /\ rd_codes \in RdTables
    /\ rd_order \in StOrders
    /\ rd_pc = "input"
    /\ rd_tree = Err("not called")
    /\ rd_bits = <<>>
    /\ rd_decoded = Err("not called")

\* HuffmanTree::restore_from_word_code
RdRestore ==
    /\ rd_pc = "input"
    /\ rd_pc' = "restored"
    /\ rd_tree' = restore_from_word_code(rd_codes, rd_order)
    /\ UNCHANGED <<rd_codes, rd_order, rd_bits, rd_decoded>>
    /\ UNCHANGED not_rd

\* HuffmanDecoder::new(tree).decode_string(bit_string)
RdDecodeString ==
    /\ rd_pc = "restored"
    /\ rd_tree.tag = "Ok"
    /\ rd_pc' = "decoded"
    /\ rd_bits' \in BitStrings(MaxBits)
    /\ rd_decoded' = HuffmanDecoder_decode_string(rd_tree.val, rd_bits')
    /\ UNCHANGED <<rd_codes, rd_order, rd_tree>>
    /\ UNCHANGED not_rd

RdNext == RdRestore \/ RdDecodeString

(***************************************************************************)
(* load_state on its own, for the state bytes of any archive               *)
(***************************************************************************)
MaxStateLen == 6

\* the bytes of a state: a word, code lengths 0, 1 and 17, code values
LsBytes == {0, 1, 17, 97}

LsInit ==
    /\ ls_state \in SeqsUpTo(LsBytes, MaxStateLen)
    /\ ls_pc = "input"
    /\ ls_loaded = Err("not called")

\* <HuffmanArchiver as StateSaver>::load_state
LsLoadState ==
    /\ ls_pc = "input"
    /\ ls_pc' = "loaded"
    /\ ls_loaded' = load_state(ls_state)
    /\ UNCHANGED ls_state
    /\ UNCHANGED not_ls

LsNext == LsLoadState

(***************************************************************************)
(* The end of decode_file: decode_and_write of a payload, for an archiver  *)
(* with a complete code table and any original size in the header.         *)
(***************************************************************************)
MaxPayloadLen == 2

MaxOriginalSize == 17

DwBytes == {0, 1, 170, 255}

\* complete prefix-free tables over ArBytes
DwTables ==
    {(97 :> <<"0">> @@ 98 :> <<"1">>),
     (97 :> <<"0">> @@ 98 :> <<"1", "0">> @@ 99 :> <<"1", "1">>),
     (97 :> <<"0", "0">> @@ 98 :> <<"0", "1">> @@ 99 :> <<"1">>)}

DwInit ==
    /\ dw_self \in [mean_code_length : {2}, word_code : DwTables]
    /\ dw_bytes \in SeqsUpTo(DwBytes, MaxPayloadLen)
    /\ dw_original_size \in 0..MaxOriginalSize
    /\ dw_order \in Orders
    /\ dw_pc = "input"
    /\ dw_written = Err("not called")

\* FileDecoder::decode_and_write
DwDecodeAndWrite ==
    /\ dw_pc = "input"
    /\ dw_pc' = "written"
    /\ dw_written' = decode_and_write(dw_self, dw_bytes, dw_original_size, dw_order)
    /\ UNCHANGED <<dw_self, dw_bytes, dw_original_size, dw_order>>
    /\ UNCHANGED not_dw

DwNext == DwDecodeAndWrite

(***************************************************************************)
(* The block coder on its own: a codec is made, and either the data are    *)
(* encoded in blocks and the result decoded in blocks of block_size plus   *)
(* control_count, or the data are decoded in blocks as they are.           *)
(***************************************************************************)
MaxBlockParity == 2

MaxDataLen == 4

MaxBlockSize == 3

BcInit ==
    /\ bc_control_count \in 1..MaxBlockParity
    /\ bc_gf \in Impls
    /\ bc_data \in SeqsUpTo(MessageBytes, MaxDataLen)
    /\ bc_block_size \in 1..MaxBlockSize
    /\ bc_pc = "input"
    /\ bc_encoded = Err("not called")
    /\ bc_decoded = Err("not called")
    /\ bc_blocks = Err("not called")

\* ReedSolomon::new(control_count, gf).encode_blocks_to_vec(&data, block_size)
BcEncodeBlocksToVec ==
    /\ bc_pc = "input"
    /\ bc_pc' = "encoded"
    /\ bc_encoded' = encode_blocks_to_vec(bc_gf, bc_control_count,
                                          build_gen_poly(bc_gf, bc_control_count),
                                          bc_data, bc_block_size)
    /\ UNCHANGED <<bc_control_count, bc_gf, bc_data, bc_block_size, bc_decoded, bc_blocks>>
    /\ UNCHANGED not_bc

\* decode_blocks_to_vec of the encoded bytes, a block being block_size data
\* bytes and control_count parity bytes
BcDecodeBlocksToVec ==
    /\ bc_pc = "encoded"
    /\ bc_encoded.tag = "Ok"
    /\ bc_pc' = "decoded"
    /\ bc_decoded' = decode_blocks_to_vec(bc_gf, bc_control_count, bc_encoded.val,
                                          bc_block_size + bc_control_count)
    /\ UNCHANGED <<bc_control_count, bc_gf, bc_data, bc_block_size, bc_encoded, bc_blocks>>
    /\ UNCHANGED not_bc

\* ReedSolomon::new(control_count, gf).decode_blocks(&data, block_size)
BcDecodeBlocks ==
    /\ bc_pc = "input"
    /\ bc_pc' = "decoded_blocks"
    /\ bc_blocks' = decode_blocks(bc_gf, bc_control_count, bc_data, bc_block_size)
    /\ UNCHANGED <<bc_control_count, bc_gf, bc_data, bc_block_size, bc_encoded, bc_decoded>>
    /\ UNCHANGED not_bc

BcNext == BcEncodeBlocksToVec \/ BcDecodeBlocksToVec \/ BcDecodeBlocks

(***************************************************************************)
(* The bit and byte conversions on their own: a bit sequence is packed and *)
(* unpacked again, or a byte sequence is unpacked and packed again.        *)
(***************************************************************************)
MaxBitsLen == 9

MaxBytesLen == 1

BbInit ==
    /\ \/ bb_bits \in SeqsUpTo(BOOLEAN, MaxBitsLen) /\ bb_bytes = <<>>
       \/ bb_bits = <<>> /\ bb_bytes \in SeqsUpTo(Byte, MaxBytesLen)
    /\ bb_pc = "input"
    /\ bb_to_bytes = Err("not called")
    /\ bb_to_bits = <<>>

\* bits_to_bytes(&bits)
BbBitsToBytes ==
    /\ bb_pc = "input"
    /\ bb_pc' = "packed"
    /\ bb_to_bytes' = bits_to_bytes(bb_bits)
    /\ UNCHANGED <<bb_bits, bb_bytes, bb_to_bits>>
    /\ UNCHANGED not_bb

\* bytes_to_bits of the bytes bits_to_bytes returned
BbBytesToBitsBack ==
    /\ bb_pc = "packed"
    /\ bb_to_bytes.tag = "Ok"
    /\ bb_pc' = "packed_unpacked"
    /\ bb_to_bits' = bytes_to_bits(bb_to_bytes.val)
    /\ UNCHANGED <<bb_bits, bb_bytes, bb_to_bytes>>
    /\ UNCHANGED not_bb

\* bytes_to_bits(&bytes)
BbBytesToBits ==
    /\ bb_pc = "input"
    /\ bb_pc' = "unpacked"
    /\ bb_to_bits' = bytes_to_bits(bb_bytes)
    /\ UNCHANGED <<bb_bits, bb_bytes, bb_to_bytes>>
    /\ UNCHANGED not_bb

\* bits_to_bytes of the bits bytes_to_bits returned
BbBitsToBytesBack ==
    /\ bb_pc = "unpacked"
    /\ bb_pc' = "unpacked_packed"
    /\ bb_to_bytes' = bits_to_bytes(bb_to_bits)
    /\ UNCHANGED <<bb_bits, bb_bytes, bb_to_bits>>
    /\ UNCHANGED not_bb

BbNext == BbBitsToBytes \/ BbBytesToBitsBack \/ BbBytesToBits \/ BbBitsToBytesBack

(***************************************************************************)
(* The error locator on its own: a codeword has positions changed in       *)
(* transit, then calculate_syndromes and find_error_locator run on it.     *)
(***************************************************************************)
LcInit ==
    /\ lc_control_count \in 0..MaxControlCount
    /\ \E message \in SeqsUpTo(MessageBytes, MaxMessageLen) :
           lc_data = encode(Fast, lc_control_count,
                            build_gen_poly(Fast, lc_control_count), message).val
    /\ lc_errors = {}
    /\ lc_pc = "received"
    /\ lc_syndromes = <<>>
    /\ lc_locator = Err("not called")

\* one more position of the word takes another value
LcCorrupt ==
    /\ lc_pc = "received"
    /\ Cardinality(lc_errors) < MaxErrors
    /\ \E pos \in (0..(Len(lc_data) - 1)) \ lc_errors :
       \E v \in ErrorBytes \ {lc_data[pos + 1]} :
          /\ lc_data' = [lc_data EXCEPT ![pos + 1] = v]
          /\ lc_errors' = lc_errors \cup {pos}
    /\ UNCHANGED <<lc_control_count, lc_pc, lc_syndromes, lc_locator>>
    /\ UNCHANGED not_lc

\* the first two steps of decode: calculate_syndromes, find_error_locator
LcFindErrorLocator ==
    /\ lc_pc = "received"
    /\ lc_pc' = "located"
    /\ lc_syndromes' = calculate_syndromes(Fast, lc_control_count, lc_data)
    /\ lc_locator' = find_error_locator(Fast, lc_control_count, lc_syndromes')
    /\ UNCHANGED <<lc_control_count, lc_data, lc_errors>>
    /\ UNCHANGED not_lc

LcNext == LcCorrupt \/ LcFindErrorLocator

(***************************************************************************)
(* The frequency scan of create_probabilities_map, read by read: the       *)
(* reader returns the next bytes of the file in a chunk of any size, the   *)
(* end of the file, or an error.                                           *)
(***************************************************************************)
MaxFileLen == 4

\* path.exists(), File::open, FrequencyMap::new()
FrInit ==
    /\ fr_file \in SeqsUpTo(ArBytes, MaxFileLen)
    /\ fr_pos = 0
    /\ fr_map = [hashmap |-> <<>>, total |-> 0]
    /\ fr_pc = "scanning"
    /\ fr_failed = FALSE
    /\ fr_result = Err("not called")

\* reader.read returns Ok(n), n > 0: freq_map.consume(&buf[..n])
FrReadChunk ==
    /\ fr_pc = "scanning"
    /\ \E n \in 1..(Len(fr_file) - fr_pos) :
          /\ fr_map' = FrequencyMap_consume_chunk(
                           fr_map, SubSeq(fr_file, fr_pos + 1, fr_pos + n))
          /\ fr_pos' = fr_pos + n
    /\ UNCHANGED <<fr_file, fr_pc, fr_failed, fr_result>>
    /\ UNCHANGED not_fr

\* reader.read returns Ok(0): break, Ok(freq_map.build())
FrReadEnd ==
    /\ fr_pc = "scanning"
    /\ fr_pos = Len(fr_file)
    /\ fr_pc' = "done"
    /\ fr_result' = Ok(FrequencyMap_build(fr_map))
    /\ UNCHANGED <<fr_file, fr_pos, fr_map, fr_failed>>
    /\ UNCHANGED not_fr

\* reader.read returns Err: `while let Ok(n)` does not match and the loop
\* ends, Ok(freq_map.build())
FrReadError ==
    /\ fr_pc = "scanning"
    /\ fr_pc' = "done"
    /\ fr_failed' = TRUE
    /\ fr_result' = Ok(FrequencyMap_build(fr_map))
    /\ UNCHANGED <<fr_file, fr_pos, fr_map>>
    /\ UNCHANGED not_fr

FrNext == FrReadChunk \/ FrReadEnd \/ FrReadError

(***************************************************************************)
(* One HuffmanArchiver serving decode_string calls, and its clone          *)
(***************************************************************************)
MaxCalls == 3

HcInit ==
    /\ hc_self \in {HuffmanArchiver__new_cell(1, word_code) : word_code \in RdTables}
    /\ hc_order \in StOrders
    /\ hc_calls = 0
    /\ hc_decoded = Err("not called")
    /\ hc_clone = Err("not called")

\* <HuffmanArchiver as Decoder>::decode_string
HcDecodeString ==
    /\ hc_calls < MaxCalls
    /\ \E bit_string \in BitStrings(MaxBits) :
          \E called \in {HuffmanArchiver_decode_string_cell(hc_self, bit_string, hc_order)} :
              /\ hc_self' = called.self
              /\ hc_decoded' = called.result
    /\ hc_calls' = hc_calls + 1
    /\ UNCHANGED <<hc_order, hc_clone>>
    /\ UNCHANGED not_hc

\* <HuffmanArchiver as Clone>::clone
HcClone ==
    /\ hc_clone' = Ok(HuffmanArchiver_clone(hc_self))
    /\ hc_clone' # hc_clone
    /\ UNCHANGED <<hc_self, hc_order, hc_calls, hc_decoded>>
    /\ UNCHANGED not_hc

HcNext == HcDecodeString \/ HcClone

(***************************************************************************)
(* The block layer of the QR code: split_into_blocks of any data for any   *)
(* block table entry, combine_blocks of any blocks, one at least           *)
(***************************************************************************)
MaxQrDataLen == 5
MaxQrBlockSize == 2
MaxQrBlockCount == 2
MaxQrBlocks == 3
MaxQrBlockLen == 3

QbBytes == {0, 1}

\* the entries of the block table: one group of blocks at least, a second
\* group of longer blocks or none
QbInfos ==
    {info \in [size1 : 1..MaxQrBlockSize, count1 : 1..MaxQrBlockCount,
               size2 : 0..(MaxQrBlockSize + 1), count2 : 0..MaxQrBlockCount] :
        IF info.count2 = 0 THEN info.size2 = 0 ELSE info.size2 = info.size1 + 1}

QbInit ==
    \/ /\ qb_pc = "split"
       /\ qb_data \in SeqsUpTo(QbBytes, MaxQrDataLen)
       /\ qb_info \in QbInfos
       /\ qb_blocks = <<>>
       /\ qb_result = Err("not called")
    \/ /\ qb_pc = "combine"
       /\ qb_data = <<>>
       /\ qb_info = [size1 |-> 0, count1 |-> 0, size2 |-> 0, count2 |-> 0]
       /\ qb_blocks \in SeqsUpTo(SeqsUpTo(QbBytes, MaxQrBlockLen), MaxQrBlocks) \ {<<>>}
       /\ qb_result = Err("not called")

\* BlocksInfo::split_into_blocks
QbSplitIntoBlocks ==
    /\ qb_pc = "split"
    /\ qb_pc' = "split done"
    /\ qb_result' = split_into_blocks(qb_data, qb_info)
    /\ UNCHANGED <<qb_data, qb_info, qb_blocks>>
    /\ UNCHANGED not_qb

\* QRCode::combine_blocks
QbCombineBlocks ==
    /\ qb_pc = "combine"
    /\ qb_pc' = "combined"
    /\ qb_result' = combine_blocks(qb_blocks)
    /\ UNCHANGED <<qb_data, qb_info, qb_blocks>>
    /\ UNCHANGED not_qb

QbNext == QbSplitIntoBlocks \/ QbCombineBlocks

(***************************************************************************)
(* Specifications: each subsystem runs on its own, the others idle         *)
(***************************************************************************)
GfIdle ==
    /\ gf_a = 0 /\ gf_b = 0 /\ gf_op = "none"
    /\ gf_fast = Ok(0) /\ gf_simple = Ok(0)

RsIdle ==
    /\ rs_control_count = 0 /\ rs_gen_poly = <<1>> /\ rs_message = <<>>
    /\ rs_encoded = Err("not called") /\ rs_data = <<>> /\ rs_errors = {}
    /\ rs_pc = "new" /\ rs_decoded = Err("not called")

HfIdle ==
    /\ hf_words = <<>> /\ hf_probabilities = <<>> /\ hf_pc = "input"
    /\ hf_codes = Codes_new(<<>>, <<>>, <<>>)

ArIdle ==
    /\ ar_input = <<>> /\ ar_pc = "input" /\ ar_archive = Err("not called")
    /\ ar_archive2 = Err("not called") /\ ar_decoded = Err("not called")

GpIdle ==
    /\ gp_control_count = 0 /\ gp_gf = Fast /\ gp_pc = "input"
    /\ gp_gen_poly = Err("not called")

DpIdle ==
    /\ dp_gf = Fast /\ dp_dividend = <<>> /\ dp_divisor = <<>> /\ dp_pc = "input"
    /\ dp_result = Err("not called")

StIdle ==
/\ st_self = [mean_code_length |-> 0, word_code |-> <<>>] /\ st_order = <<>> /\ st_pc = "input"
    /\ st_state = Err("not called") /\ st_loaded = Err("not called")

FqIdle ==
/\ fq_map = [hashmap |-> <<>>, total |-> 0] /\ fq_order = <<>> /\ fq_pc = "input"
    /\ fq_archiver = Err("not called") /\ fq_state = Err("not called")

RdIdle ==
/\ rd_codes = <<>> /\ rd_order = <<>> /\ rd_pc = "input" /\ rd_tree = Err("not called")
    /\ rd_bits = <<>> /\ rd_decoded = Err("not called")

LsIdle ==
/\ ls_state = <<>> /\ ls_pc = "input" /\ ls_loaded = Err("not called")

DwIdle ==
/\ dw_self = [mean_code_length |-> 0, word_code |-> <<>>] /\ dw_bytes = <<>>
    /\ dw_original_size = 0 /\ dw_order = <<>> /\ dw_pc = "input"
    /\ dw_written = Err("not called")

BcIdle ==
/\ bc_control_count = 0 /\ bc_gf = Fast /\ bc_data = <<>> /\ bc_block_size = 1
    /\ bc_pc = "input" /\ bc_encoded = Err("not called")
    /\ bc_decoded = Err("not called") /\ bc_blocks = Err("not called")

BbIdle ==
/\ bb_bits = <<>> /\ bb_bytes = <<>> /\ bb_pc = "input"
    /\ bb_to_bytes = Err("not called") /\ bb_to_bits = <<>>

LcIdle ==
/\ lc_control_count = 0 /\ lc_data = <<>> /\ lc_errors = {} /\ lc_pc = "received"
    /\ lc_syndromes = <<>> /\ lc_locator = Err("not called")

FrIdle ==
/\ fr_file = <<>> /\ fr_pos = 0 /\ fr_map = [hashmap |-> <<>>, total |-> 0]
    /\ fr_pc = "scanning" /\ fr_failed = FALSE /\ fr_result = Err("not called")

HcIdle ==
/\ hc_self = [word_code |-> <<>>, mean_code_length |-> 0, decoder |-> [tag |-> "None"]]
    /\ hc_order = <<>> /\ hc_calls = 0 /\ hc_decoded = Err("not called")
    /\ hc_clone = Err("not called")

QbIdle ==
/\ qb_data = <<>> /\ qb_info = [size1 |-> 0, count1 |-> 0, size2 |-> 0, count2 |-> 0]
    /\ qb_blocks = <<>> /\ qb_pc = "idle" /\ qb_result = Err("not called")

\* every subsystem but the one named is idle
IdleBut(subsystem) ==
    /\ (IF subsystem = "gf" THEN TRUE ELSE GfIdle)
    /\ (IF subsystem = "rs" THEN TRUE ELSE RsIdle)
    /\ (IF subsystem = "hf" THEN TRUE ELSE HfIdle)
    /\ (IF subsystem = "ar" THEN TRUE ELSE ArIdle)
    /\ (IF subsystem = "gp" THEN TRUE ELSE GpIdle)
    /\ (IF subsystem = "dp" THEN TRUE ELSE DpIdle)
    /\ (IF subsystem = "st" THEN TRUE ELSE StIdle)
    /\ (IF subsystem = "fq" THEN TRUE ELSE FqIdle)
    /\ (IF subsystem = "rd" THEN TRUE ELSE RdIdle)
    /\ (IF subsystem = "ls" THEN TRUE ELSE LsIdle)
    /\ (IF subsystem = "dw" THEN TRUE ELSE DwIdle)
    /\ (IF subsystem = "bc" THEN TRUE ELSE BcIdle)
    /\ (IF subsystem = "bb" THEN TRUE ELSE BbIdle)
    /\ (IF subsystem = "lc" THEN TRUE ELSE LcIdle)
    /\ (IF subsystem = "fr" THEN TRUE ELSE FrIdle)
    /\ (IF subsystem = "hc" THEN TRUE ELSE HcIdle)
    /\ (IF subsystem = "qb" THEN TRUE ELSE QbIdle)

InitGF == GfInit /\ IdleBut("gf")

SpecGF == InitGF /\ [][GfNext]_vars

InitRS == RsInit /\ IdleBut("rs")

SpecRS == InitRS /\ [][RsNext]_vars

InitCodes == HfInit /\ IdleBut("hf")

SpecCodes == InitCodes /\ [][HfNext]_vars

InitArchive == ArInit /\ IdleBut("ar")

SpecArchive == InitArchive /\ [][ArNext]_vars

InitGenPoly == GpInit /\ IdleBut("gp")

SpecGenPoly == InitGenPoly /\ [][GpNext]_vars

InitDivPoly == DpInit /\ IdleBut("dp")

SpecDivPoly == InitDivPoly /\ [][DpNext]_vars

InitState == StInit /\ IdleBut("st")

SpecState == InitState /\ [][StNext]_vars

InitFreq == FqInit /\ IdleBut("fq")

SpecFreq == InitFreq /\ [][FqNext]_vars

InitRestore == RdInit /\ IdleBut("rd")

SpecRestore == InitRestore /\ [][RdNext]_vars

InitLoad == LsInit /\ IdleBut("ls")

SpecLoad == InitLoad /\ [][LsNext]_vars

InitDecode == DwInit /\ IdleBut("dw")

SpecDecode == InitDecode /\ [][DwNext]_vars

InitBlocks == BcInit /\ IdleBut("bc")

SpecBlocks == InitBlocks /\ [][BcNext]_vars

InitBits == BbInit /\ IdleBut("bb")

SpecBits == InitBits /\ [][BbNext]_vars

InitLocator == LcInit /\ IdleBut("lc")

SpecLocator == InitLocator /\ [][LcNext]_vars

InitScan == FrInit /\ IdleBut("fr")

SpecScan == InitScan /\ [][FrNext]_vars

InitCache == HcInit /\ IdleBut("hc")

SpecCache == InitCache /\ [][HcNext]_vars

InitQrBlocks == QbInit /\ IdleBut("qb")

SpecQrBlocks == InitQrBlocks /\ [][QbNext]_vars

(***************************************************************************)
(* Claims about the Reed-Solomon codec (checked under SpecRS)              *)
(***************************************************************************)
NumErrors == Cardinality(rs_errors)

Correctable == rs_control_count \div 2

\* C1: a word that left encode(m) and had at most floor(p/2) byte positions
\* changed to other values decodes to Ok(m).
C1_DecodeCorrects ==
    (rs_pc = "decoded" /\ NumErrors <= Correctable) => rs_decoded = Ok(rs_message)

C1_Witness ==
    /\ rs_pc = "decoded"
    /\ rs_control_count = 4
    /\ NumErrors = 2
    /\ rs_message # <<>>
    /\ rs_decoded = Ok(rs_message)

\* C2: encode returns an error when len(m)+p > 255; otherwise a word of length
\* len(m)+p that carries m in positions p.. and whose p syndromes (evaluated
\* with the reference field) are all zero.
C2_EncodeContract ==
    rs_pc \in {"encoded", "decoded"} =>
        IF Len(rs_message) + rs_control_count > 255
        THEN rs_encoded.tag = "Err"
        ELSE /\ rs_encoded.tag = "Ok"
             /\ Len(rs_encoded.val) = Len(rs_message) + rs_control_count
             /\ SubSeq(rs_encoded.val, rs_control_count + 1, Len(rs_encoded.val))
                   = rs_message
             /\ \A i \in 0..(rs_control_count - 1) :
                   eval_poly(Simple, rs_encoded.val, pow(Simple, alpha, i)) = 0

C2_Witness ==
    /\ rs_pc = "encoded"
    /\ rs_control_count = 4
    /\ rs_message = <<1>>
    /\ rs_encoded.tag = "Ok"
    /\ \E i \in 1..4 : rs_encoded.val[i] # 0

\* C3: a word that left encode(m) and had more than floor(p/2) positions
\* changed makes decode return an error, or a message other than m; decode
\* ends no other way.
C3_DecodeBeyondCapacity ==
    (rs_pc = "decoded" /\ NumErrors > Correctable) =>
        \/ rs_decoded.tag = "Err"
        \/ (rs_decoded.tag = "Ok" /\ rs_decoded.val # rs_message)

\* C4: decode of any byte sequence ends by returning Ok or Err; it never panics.
C4_DecodeNeverPanics ==
    rs_pc \in {"decoded", "decoded_received"} => rs_decoded.tag \in {"Ok", "Err"}

(***************************************************************************)
(* Claims about the field (checked under SpecGF)                           *)
(***************************************************************************)
\* the third operand of the three-operand laws
ThirdOperands == Byte

\* C9: for all bytes a, b, c: add and mul are commutative and associative, mul
\* distributes over add, mul(a, 1) = a, and for nonzero a mul(a, inverse(a)) = 1
\* and pow(a, 255) = 1 (FastGF256, the field new_reed_solomon is built on).
C9_FieldLaws ==
    /\ gf_op = "add" =>
          /\ gf_fast.val = add(gf_b, gf_a)
          /\ \A c \in ThirdOperands : add(gf_fast.val, c) = add(gf_a, add(gf_b, c))
    /\ gf_op = "mul" =>
          /\ gf_fast.val = mul(Fast, gf_b, gf_a)
          /\ gf_b = 1 => gf_fast.val = gf_a
          /\ \A c \in ThirdOperands :
                /\ mul(Fast, gf_fast.val, c) = mul(Fast, gf_a, mul(Fast, gf_b, c))
                /\ mul(Fast, c, add(gf_a, gf_b))
                      = add(mul(Fast, c, gf_a), mul(Fast, c, gf_b))
    /\ (gf_op = "inverse" /\ gf_a # 0) =>
          /\ gf_fast.tag = "Ok"
          /\ mul(Fast, gf_a, gf_fast.val) = 1
    /\ (gf_op = "pow" /\ gf_a # 0 /\ gf_b = 255) => gf_fast.val = 1

C9_Witness ==
    /\ gf_op = "mul"
    /\ gf_a = 83
    /\ gf_b = 202
    /\ gf_fast.val = 143
    /\ mul(Fast, gf_fast.val, 2) = mul(Fast, gf_a, mul(Fast, gf_b, 2))

\* C10: FastGF256 and SimpleGF256 return the same results for mul(a, b) and
\* pow(a, b) on all 256 x 256 operand pairs, for div(a, b) on all a and nonzero b,
\* and for inverse(a) on all nonzero a.
C10_FastEqualsSimple ==
    /\ gf_op \in {"mul", "pow"} => gf_fast = gf_simple
    /\ (gf_op = "div" /\ gf_b # 0) => (gf_fast.tag = "Ok" /\ gf_fast = gf_simple)
    /\ (gf_op = "inverse" /\ gf_a # 0) => (gf_fast.tag = "Ok" /\ gf_fast = gf_simple)

C10_Witness ==
    /\ gf_op = "div"
    /\ gf_a = 255
    /\ gf_b = 254
    /\ gf_fast.tag = "Ok"
    /\ gf_fast.val \notin {0, 1}
    /\ gf_simple = gf_fast

(***************************************************************************)
(* Claims about the Huffman code builder (checked under SpecCodes)         *)
(***************************************************************************)
\* the builder returned codes (it panics when given no pair at all)
HfBuilt == hf_pc \in {"codes", "tree"} /\ ~IsPanic(hf_codes)

IsPrefix(a, b) == Len(a) <= Len(b) /\ SubSeq(b, 1, Len(a)) = a

\* C6: for every list of two or more (symbol, probability) pairs, no code the
\* Huffman builder returns is a prefix of, or equal to, the code of another
\* symbol.
C6_PrefixFree ==
    (HfBuilt /\ Len(hf_words) >= 2) =>
        /\ Len(hf_codes.codes) = Len(hf_words)
        /\ \A i, j \in 1..Len(hf_codes.codes) :
               i # j => ~IsPrefix(hf_codes.codes[i], hf_codes.codes[j])

\* four equally probable symbols get the four codes of two bits
C6_Witness ==
    /\ hf_pc = "codes"
    /\ hf_probabilities = [i \in 1..4 |-> <<1, WeightUnit>>]
    /\ {hf_codes.codes[i] : i \in 1..4} =
           {<<"0", "0">>, <<"0", "1">>, <<"1", "0">>, <<"1", "1">>}

\* sum of p_i times code length, in units of the probabilities' denominator
WeightedLength(c) ==
    SumTo([i \in 1..Len(c.codes) |-> c.probabilities[i][1] * Len(c.codes[i])],
          Len(c.codes))

SetMin(S) == CHOOSE x \in S : \A y \in S : x <= y

RECURSIVE MinCost(_, _, _, _)
\* The least weighted length of a prefix code for the weights w[i..]: code
\* lengths l_i are those for which a prefix code exists, that is the ones
\* with sum of 2^(-l_i) at most 1 (Kraft), and no optimal code is deeper than
\* L = Len(w) - 1.  budget is what is left of 1, in units of 2^(-L); every
\* later symbol needs one unit at least.
MinCost(w, i, budget, L) ==
    IF i > Len(w) THEN 0
    ELSE SetMin({w[i][1] * l + MinCost(w, i + 1, budget - 2 ^ (L - l), L) :
                    l \in {k \in 0..L : 2 ^ (L - k) <= budget - (Len(w) - i)}})

MinPrefixCodeLength(w) == MinCost(w, 1, 2 ^ (Len(w) - 1), Len(w) - 1)

\* item is a lowest-probability node among itself and those left in the queue
LowestOf(item, data) ==
    \A k \in 1..Len(data) : ProbLe(item.probability, data[k].probability)

RECURSIVE UnitesLowestLoop(_)
UnitesLowestPush(item1, popped) ==
    /\ LowestOf(popped.item, popped.data)
    /\ UnitesLowestLoop(heap_push(popped.data, unite(item1, popped.item)))

UnitesLowestPop(popped) ==
    /\ LowestOf(popped.item, popped.data)
    /\ UnitesLowestPush(popped.item, heap_pop(popped.data))

\* every pass of build's loop pops the two lowest-probability nodes
UnitesLowestLoop(heap) == Len(heap) >= 2 => UnitesLowestPop(heap_pop(heap))

\* C7: for every weight vector, the codes HuffmanTree::build produces have a
\* total weighted length equal to the minimum over all prefix codes for those
\* weights, and each step of build unites the two lowest-probability nodes
\* that remain in the queue.
C7_OptimalLength ==
    HfBuilt =>
        /\ WeightedLength(hf_codes) = MinPrefixCodeLength(hf_codes.probabilities)
        /\ UnitesLowestLoop(heap_from_vec(
               [i \in 1..Len(hf_codes.words) |->
                   new_leaf(hf_codes.probabilities[i], i - 1, hf_codes.words[i])]))

\* weights 1, 4, 2, 1 given unsorted to build: code lengths 3, 1, 2, 3
C7_Witness ==
    /\ hf_pc = "tree"
    /\ hf_probabilities = <<<<1, WeightUnit>>, <<4, WeightUnit>>,
                            <<2, WeightUnit>>, <<1, WeightUnit>>>>
    /\ [i \in 1..4 |-> Len(hf_codes.codes[i])] = <<3, 1, 2, 3>>
    /\ WeightedLength(hf_codes) = 14

(***************************************************************************)
(* Claims about the archiver (checked under SpecArchive)                   *)
(***************************************************************************)
\* C5: for every nonempty byte sequence x, also one with a single distinct
\* byte value, archiving x and decoding that archive yields exactly x.
C5_RoundTrip ==
    (ar_pc = "decoded" /\ ar_input # <<>>) => ar_decoded = Ok(ar_input)

\* C8: two archive encodings of the same input bytes are byte-identical,
\* whatever order the byte-to-probability map and the code table are iterated
\* in, also when several bytes have equal frequency.
C8_SameArchive ==
    ar_pc = "archived_twice" => ar_archive2 = ar_archive

(***************************************************************************)
(* Claims about the generator polynomial (checked under SpecGenPoly)       *)
(***************************************************************************)
\* C11: for every parity count p in 1..32 (1..MaxParity) the generator polynomial built by
\* build_gen_poly has length p+1 and highest coefficient 1, evaluates to 0 at
\* alpha^i for every i in 0..p-1, and does not evaluate to 0 at alpha^p.
C11_GenPoly ==
    (gp_pc = "new" /\ gp_control_count \in 1..MaxParity) =>
        /\ gp_gen_poly.tag = "Ok"
        /\ Len(gp_gen_poly.val) = gp_control_count + 1
        /\ gp_gen_poly.val[gp_control_count + 1] = 1
        /\ \A i \in 0..(gp_control_count - 1) :
               eval_poly(Simple, gp_gen_poly.val, pow(Simple, alpha, i)) = 0
        /\ eval_poly(Simple, gp_gen_poly.val, pow(Simple, alpha, gp_control_count)) # 0

\* the generator for 32 parity bytes, built over the table-driven field
C11_Witness ==
    /\ gp_pc = "new" /\ gp_control_count = 32 /\ gp_gf = Fast
    /\ gp_gen_poly.tag = "Ok"
    /\ Len(gp_gen_poly.val) = 33
    /\ \E i \in 1..32 : gp_gen_poly.val[i] \notin {0, 1}

\* C23: ReedSolomon::new succeeds for every parity count in 1..=255 and fails
\* fast for every parity count outside that range, for 0 as well as for the
\* values above 255.
C23_ParityRange ==
    gp_pc = "new" => (gp_gen_poly.tag = "Ok" <=> gp_control_count \in 1..255)

(***************************************************************************)
(* Claims about polynomial division (checked under SpecDivPoly)            *)
(***************************************************************************)

\* C12: for every dividend and every divisor whose highest coefficient is
\* nonzero, with len(dividend) >= len(divisor), _div_poly returns a quotient
\* of length len(dividend) - len(divisor) + 1 and a remainder that is [0] if
\* all its coefficients are zero and has length len(divisor) - 1 otherwise,
\* whatever the values of the two leading coefficients are.
C12_DivPolyLengths ==
    (/\ dp_pc = "divided"
     /\ dp_divisor # <<>>
     /\ dp_divisor[Len(dp_divisor)] # 0
     /\ Len(dp_dividend) >= Len(dp_divisor)) =>
        /\ dp_result.tag = "Ok"
        /\ Len(dp_result.val.quotient) = Len(dp_dividend) - Len(dp_divisor) + 1
        /\ IF AllZero(dp_result.val.remainder)
           THEN dp_result.val.remainder = <<0>>
           ELSE Len(dp_result.val.remainder) = Len(dp_divisor) - 1

(***************************************************************************)
(* Claims about the saved state (checked under SpecState)                  *)
(***************************************************************************)
\* the entry of a word in a saved state: symbol, code length, code value as
\* little-endian u16
StEntry(word, code) ==
    <<word, Len(code), BitsValue(code) % 256, BitsValue(code) \div 256>>

\* C13: for every code table whose codes are at most 16 bits long, save_state
\* emits one 4-byte entry [symbol, code length, code value as little-endian
\* u16] per symbol, followed by mean_code_length as little-endian u16, and
\* load_state of those bytes restores the same table and mean_code_length.
C13_SaveLoad ==
    /\ st_pc \in {"saved", "loaded"} =>
         /\ st_state.tag = "Ok"
         /\ Len(st_state.val) = 4 * Cardinality(DOMAIN st_self.word_code) + 2
         /\ \A word \in DOMAIN st_self.word_code :
                \E k \in 0..(Cardinality(DOMAIN st_self.word_code) - 1) :
                    SubSeq(st_state.val, 4 * k + 1, 4 * k + 4)
                        = StEntry(word, st_self.word_code[word])
         /\ SubSeq(st_state.val, Len(st_state.val) - 1, Len(st_state.val))
                = <<st_self.mean_code_length % 256, st_self.mean_code_length \div 256>>
    /\ st_pc = "loaded" => st_loaded = st_self

(***************************************************************************)
(* Claims about the codes of a file (checked under SpecFreq)               *)
(***************************************************************************)
\* C14: for every frequency distribution derived from a file, every code the
\* Huffman builder assigns has at most 16 bits, so that the entry of every
\* code in the saved state (u8 length, u16 value) holds all its bits.
C14_CodesFit ==
    /\ (fq_pc \in {"built", "saved"} /\ "tag" \notin DOMAIN fq_archiver) =>
           \A word \in DOMAIN fq_archiver.word_code :
               Len(fq_archiver.word_code[word]) <= 16
    /\ fq_pc = "saved" =>
           \A word \in DOMAIN fq_archiver.word_code :
               \E k \in 0..(Cardinality(DOMAIN fq_archiver.word_code) - 1) :
                   SubSeq(fq_state.val, 4 * k + 1, 4 * k + 4)
                       = StEntry(word, fq_archiver.word_code[word])

(***************************************************************************)
(* Claims about the decoder's tree (checked under SpecRestore)             *)
(***************************************************************************)
\* C16: restore_from_word_code returns an error for every code table with two
\* entries of which one code is a prefix of the other, in whatever order the
\* entries are visited.
C16_PrefixConflict ==
    (/\ rd_pc \in {"restored", "decoded"}
     /\ \E w1, w2 \in DOMAIN rd_codes :
            w1 # w2 /\ IsPrefix(rd_codes[w1], rd_codes[w2]))
        => rd_tree.tag = "Err"

\* a table the tree of a decoder is built from: no code is empty, and none
\* is a prefix of, or equal to, another
RdPrefixFree(codes) ==
    /\ \A w \in DOMAIN codes : codes[w] # <<>>
    /\ \A w1, w2 \in DOMAIN codes : w1 # w2 => ~IsPrefix(codes[w1], codes[w2])

RECURSIVE EntersUnassigned(_, _)
\* the bits, read code after code, come to a bit that no code of the table
\* continues with: a branch of the tree that has no code
EntersUnassigned(codes, bits) ==
    IF bits = <<>> THEN FALSE
    ELSE IF \E w \in DOMAIN codes : IsPrefix(codes[w], bits)
    THEN EntersUnassigned(
             codes,
             SubSeq(bits,
                    1 + Len(codes[CHOOSE w \in DOMAIN codes : IsPrefix(codes[w], bits)]),
                    Len(bits)))
    ELSE \A w \in DOMAIN codes : ~IsPrefix(bits, codes[w])

\* C18: when the tree was restored from a code table that leaves a branch
\* without a code, decode_string returns an error as soon as a bit leads
\* into such a branch, and emits no byte for it.
C18_UnassignedBranch ==
    (/\ rd_pc = "decoded"
     /\ RdPrefixFree(rd_codes)
     /\ EntersUnassigned(rd_codes, rd_bits))
        => rd_decoded.tag = "Err"

(***************************************************************************)
(* Claims about load_state (checked under SpecLoad)                        *)
(***************************************************************************)
\* C15: load_state returns an error value, without panicking, for every state
\* that is truncated (fewer than 2 bytes, or an entry section whose length is
\* not a multiple of 4) or that has an entry whose code length exceeds 16.
C15_LoadRejects ==
    (/\ ls_pc = "loaded"
     /\ \/ Len(ls_state) < 2
        \/ (Len(ls_state) - 2) % 4 # 0
        \/ \E k \in 0..((Len(ls_state) - 2) \div 4 - 1) : ls_state[4 * k + 2] > 16)
        => IsErr(ls_loaded)

(***************************************************************************)
(* Claims about decode_and_write (checked under SpecDecode)                *)
(***************************************************************************)
\* C17: Huffman decoding returns an error whenever the payload bits run out,
\* at a code boundary or in the middle of a code, while fewer than
\* original_size bytes have been produced: a successful decode never writes
\* fewer than original_size bytes.
C17_ShortPayload ==
    (dw_pc = "written" /\ dw_written.tag = "Ok")
        => Len(dw_written.val) >= dw_original_size

(***************************************************************************)
(* Claims about the block coder (checked under SpecBlocks)                 *)
(***************************************************************************)
\* C19: decode_blocks(bytes, n) returns an error, and decodes nothing
\* successfully, whenever len(bytes) is not a positive multiple of n.
C19_RaggedInput ==
    (/\ bc_pc = "decoded_blocks"
     /\ (Len(bc_data) = 0 \/ Len(bc_data) % bc_block_size # 0))
        => bc_blocks.tag = "Err"

\* the consecutive chunks of s bytes of d, the last one with what is left
ChunkCount(d, s) == (Len(d) + s - 1) \div s

ChunkAt(d, s, i) == SubSeq(d, (i - 1) * s + 1, Min(i * s, Len(d)))

\* C20: for every byte sequence d and block size s >= 1 with s + p <= 255,
\* encode_blocks_to_vec(d, s) is the concatenation, in order, of
\* encode(chunk) for the consecutive chunks of s bytes of d (the last may be
\* shorter), each codeword in a contiguous run, and decode_blocks_to_vec of
\* that output with block size s + p returns d.
C20_BlocksRoundTrip ==
    /\ bc_pc \in {"encoded", "decoded"} =>
         /\ bc_encoded.tag = "Ok"
         /\ Len(bc_encoded.val)
                = Len(bc_data) + bc_control_count * ChunkCount(bc_data, bc_block_size)
         /\ \A i \in 1..ChunkCount(bc_data, bc_block_size) :
                Ok(ChunkAt(bc_encoded.val, bc_block_size + bc_control_count, i))
                    = encode(bc_gf, bc_control_count,
                             build_gen_poly(bc_gf, bc_control_count),
                             ChunkAt(bc_data, bc_block_size, i))
    /\ bc_pc = "decoded" => bc_decoded = Ok(bc_data)

\* two blocks, the second shorter than the first, with a nonzero byte in each
C20_Witness ==
    /\ bc_pc = "decoded"
    /\ bc_block_size = 3
    /\ bc_data = <<1, 0, 1, 1>>
    /\ bc_encoded.tag = "Ok"
    /\ Len(bc_encoded.val) = 4 + 2 * bc_control_count
    /\ bc_decoded = Ok(bc_data)

(***************************************************************************)
(* Claims about the bit and byte conversions (checked under SpecBits)      *)
(***************************************************************************)
\* C21: bytes_to_bits(bits_to_bytes(b)) = b for every bit sequence b whose
\* length is a multiple of 8, bits_to_bytes(bytes_to_bits(x)) = x for every
\* byte sequence x, and bits_to_bytes returns an error for every bit sequence
\* whose length is not a multiple of 8.
C21_BitsBytesRoundTrip ==
    /\ bb_pc = "packed" => (bb_to_bytes.tag = "Err" <=> Len(bb_bits) % 8 # 0)
    /\ bb_pc = "packed_unpacked" => bb_to_bits = bb_bits
    /\ bb_pc = "unpacked_packed" => bb_to_bytes = Ok(bb_bytes)

\* a byte with different halves went to bits and back, and eight bits that
\* are no palindrome went to a byte and back
C21_Witness ==
    \/ bb_pc = "unpacked_packed" /\ bb_bytes = <<83>> /\ bb_to_bytes = Ok(<<83>>)
    \/ /\ bb_pc = "packed_unpacked"
       /\ bb_bits = <<TRUE, TRUE, FALSE, FALSE, TRUE, FALSE, TRUE, FALSE>>
       /\ bb_to_bytes = Ok(<<202>>)
       /\ bb_to_bits = bb_bits

(***************************************************************************)
(* Claims about the field's errors and values (checked under SpecGF)       *)
(***************************************************************************)
\* C22: div(a, 0) for every a, a = 0 included, and inverse(0) end in a panic
\* and return no value, in the table-based and in the reference field.
C22_ZeroPanics ==
    /\ (gf_op = "div" /\ gf_b = 0)
           => gf_fast = Panic("Division by zero") /\ gf_simple = Panic("Division by zero")
    /\ (gf_op = "inverse" /\ gf_a = 0)
           => gf_fast = Panic("Zero has no inverse")
              /\ gf_simple = Panic("Zero has no inverse")

\* 0 / 0 was asked of both implementations
C22_Witness ==
    /\ gf_op = "div"
    /\ gf_a = 0
    /\ gf_b = 0
    /\ gf_fast.tag = "Panic"
    /\ gf_simple.tag = "Panic"

\* C24 as stated: with primitive polynomial 0x11D, mul(0x53, 0xCA) returns
\* 0x01.
C24_MulIsOne ==
    (gf_op = "mul" /\ gf_a = 83 /\ gf_b = 202)
        => gf_fast = Ok(1) /\ gf_simple = Ok(1)

\* C24: with primitive polynomial 0x11D, mul(0x53, 0xCA) returns 0x8F, in
\* both implementations; the inverse of 0x53 is 0x8C, not 0xCA.
C24_MulValue ==
    /\ (gf_op = "mul" /\ gf_a = 83 /\ gf_b = 202)
           => gf_fast = Ok(143) /\ gf_simple = Ok(143)
    /\ (gf_op = "inverse" /\ gf_a = 83)
           => gf_fast = Ok(140) /\ gf_simple = Ok(140)

\* mul(0x53, 0xCA) was asked of both implementations
C24_Witness ==
    /\ gf_op = "mul"
    /\ gf_a = 83
    /\ gf_b = 202
    /\ gf_fast.tag = "Ok"
    /\ gf_simple = gf_fast
    /\ PRIMITIVE_POLY_FULL = 285

(***************************************************************************)
(* Claims about the error locator (checked under SpecLocator)              *)
(***************************************************************************)
\* C25: for every codeword corrupted in exactly e positions, 1 <= e <=
\* floor(p/2), find_error_locator of its syndromes returns a polynomial of
\* length e + 1 with constant term 1 whose roots are exactly alpha^(-j) for
\* the corrupted positions j; for all-zero syndromes it returns [1].
C25_Locator ==
    /\ (/\ lc_pc = "located"
        /\ Cardinality(lc_errors) \in 1..(lc_control_count \div 2))
           => /\ lc_locator.tag = "Ok"
              /\ Len(lc_locator.val) = Cardinality(lc_errors) + 1
              /\ lc_locator.val[1] = 1
              /\ eval_poly(Fast, lc_locator.val, 0) # 0
              /\ \A j \in 0..254 :
                     eval_poly(Fast, lc_locator.val,
                               inverse(Fast, alpha_pow(Fast, j)).val) = 0
                         <=> j \in lc_errors
    /\ (lc_pc = "located" /\ AllZero(lc_syndromes)) => lc_locator = Ok(<<1>>)

\* two positions of a word with four parity bytes were changed
C25_Witness ==
    /\ lc_pc = "located"
    /\ lc_control_count = 4
    /\ Cardinality(lc_errors) = 2
    /\ lc_locator.tag = "Ok"
    /\ Len(lc_locator.val) = 3

(***************************************************************************)
(* Claims about the frequency scan (checked under SpecScan)                *)
(***************************************************************************)
\* how often a byte occurs among the first n bytes of the file
Occurrences(byte, n) == Cardinality({i \in 1..n : fr_file[i] = byte})

\* C26: after any sequence of FrequencyMap::consume calls on chunks of any
\* sizes, total is the number of bytes consumed and the sum of all counts,
\* each count is the number of occurrences of its byte, and so build() gives
\* the same map however the input was split into chunks.
C26_Counts ==
    /\ fr_map.total = fr_pos
    /\ DOMAIN fr_map.hashmap = {fr_file[i] : i \in 1..fr_pos}
    /\ \A byte \in DOMAIN fr_map.hashmap :
           fr_map.hashmap[byte] = Occurrences(byte, fr_pos)
    /\ fr_map.total
           = SumTo([k \in 1..Len(HashMap_iter(fr_map.hashmap, <<97, 98, 99>>)) |->
                       fr_map.hashmap[HashMap_iter(fr_map.hashmap, <<97, 98, 99>>)[k]]],
                   Cardinality(DOMAIN fr_map.hashmap))
    /\ (fr_pc = "done" /\ ~fr_failed) =>
           fr_result = Ok([byte \in {fr_file[i] : i \in 1..Len(fr_file)} |->
                              <<Occurrences(byte, Len(fr_file)), Len(fr_file)>>])

\* a file of four bytes with a byte that occurs twice was scanned to its end
C26_Witness ==
    /\ fr_pc = "done"
    /\ ~fr_failed
    /\ fr_pos = 4
    /\ fr_map.total = 4
    /\ \E byte \in DOMAIN fr_map.hashmap : fr_map.hashmap[byte] = 2

\* C27: if a read of the input file fails partway through the frequency
\* scan, create_probabilities_map returns an error, and never Ok with a map
\* computed from the bytes read before the failure.
C27_ReadFailure ==
    (fr_pc = "done" /\ fr_failed) => fr_result.tag = "Err"

(***************************************************************************)
(* Claims about the decoder cell (checked under SpecCache)                 *)
(***************************************************************************)
\* the tree the decoder cell would be given by a reconstruction now
HcRestored == restore_from_word_code(hc_self.word_code, hc_order)

\* C28: over any sequence of decode calls on one HuffmanArchiver the cached
\* decoder changes from absent to present at most once, on the first call
\* whose tree reconstruction succeeds, and is never replaced or cleared
\* afterwards; a failed reconstruction leaves it absent; the code table is
\* never modified; clone() yields an archiver with the same code table and
\* an absent cache.
C28_DecoderCell ==
    [][/\ hc_self'.word_code = hc_self.word_code
       /\ hc_self.decoder.tag = "Some" => hc_self'.decoder = hc_self.decoder
       /\ (hc_self.decoder = None /\ hc_calls' # hc_calls) =>
              IF IsErr(HcRestored)
              THEN hc_self'.decoder = None /\ hc_decoded' = HcRestored
              ELSE hc_self'.decoder = Some(HcRestored.val)
       /\ hc_clone' # hc_clone =>
              /\ hc_clone'.val.word_code = hc_self.word_code
              /\ hc_clone'.val.decoder = None]_vars

\* after two calls the decoder is cached, and a clone made then has none
C28_Witness ==
    /\ hc_calls >= 2
    /\ hc_self.decoder.tag = "Some"
    /\ hc_decoded.tag = "Ok" /\ Len(hc_decoded.val) >= 1
    /\ hc_clone.tag = "Ok"
    /\ hc_clone.val.decoder = None
    /\ hc_clone.val.word_code = hc_self.word_code

(***************************************************************************)
(* Claims about the QR code blocks (checked under SpecQrBlocks)            *)
(***************************************************************************)
\* C29: split_into_blocks returns an error exactly when the data length
\* differs from count1*size1 + count2*size2; when the lengths match it
\* returns count1 blocks of size1 bytes followed by count2 blocks of size2
\* bytes whose concatenation equals the data.
C29_Split ==
    qb_pc = "split done" =>
        IF Len(qb_data) # qb_info.count1 * qb_info.size1 + qb_info.count2 * qb_info.size2
        THEN qb_result.tag = "Err"
        ELSE /\ qb_result.tag = "Ok"
             /\ Len(qb_result.val) = qb_info.count1 + qb_info.count2
             /\ \A k \in 1..Len(qb_result.val) :
                    Len(qb_result.val[k]) = IF k <= qb_info.count1 THEN qb_info.size1
                                            ELSE qb_info.size2
             /\ Concat(qb_result.val) = qb_data

\* the bytes of the blocks: <<i, b>> is byte i of block b
QbPositions ==
    {p \in (1..MaxQrBlockLen) \X (1..MaxQrBlocks) :
        p[2] <= Len(qb_blocks) /\ p[1] <= Len(qb_blocks[p[2]])}

\* the place of a byte in round-robin order: all bytes of lower index come
\* first, then those of the same index in earlier blocks
QbRank(p) ==
    Cardinality({q \in QbPositions : q[1] < p[1] \/ (q[1] = p[1] /\ q[2] <= p[2])})

\* C30: combine_blocks returns a sequence that contains every byte of every
\* block exactly once, in round-robin order: byte 0 of each block in block
\* order, then byte 1 of each block, and so on until the longest block is
\* exhausted, skipping blocks that have no byte left.
C30_Combine ==
    qb_pc = "combined" =>
        /\ qb_result.tag = "Ok"
        /\ Len(qb_result.val) = Cardinality(QbPositions)
        /\ \A p \in QbPositions : qb_result.val[QbRank(p)] = qb_blocks[p[2]][p[1]]

=============================================================================
